---- MODULE Spec2Model ----
(***************************************************************************)
(* A model of the heapstore storage engine of crusty-db: the slotted Page  *)
(* (heap_page.rs), the HeapFileIterator (heapfileiter.rs) and the          *)
(* StorageManager (storage_manager.rs).  A page is modelled at the byte    *)
(* level: an array of PAGE_SIZE bytes whose header and slot directory are  *)
(* read and written as little-endian 16-bit integers, as the code does.    *)
(***************************************************************************)
EXTENDS Integers, Sequences, FiniteSets, TLC

(***************************************************************************)
(* Bounds of the model.  PAGE_SIZE is common::PAGE_SIZE (4096 in the       *)
(* program) scaled down so that a page fills after a handful of records.   *)
(***************************************************************************)
PAGE_SIZE == 32
MaxLen == 2
MaxPages == 2
MaxOps == 5
MaxUpdOps == 4
MaxCmOps == 5
MaxTuples == 3

\* The byte values payloads are drawn from.
ByteVals == {0, 1}

(***************************************************************************)
(* Program constants (heap_page.rs lines 9-20).                            *)
(***************************************************************************)
META_HEADER_SIZE == 8
SLOT_META_SIZE == 6
PAGEID_SIZE == 2
OFFSET_SIZE == 2
SLOTID_SIZE == 2
PAGEID_LOC == 0
NUMSLOTS_LOC == PAGEID_LOC + PAGEID_SIZE
FIRSTOFFSET_LOC == NUMSLOTS_LOC + 2
TOTSLOTS_LOC == FIRSTOFFSET_LOC + OFFSET_SIZE
SLOTSTART_LOC == TOTSLOTS_LOC + SLOTID_SIZE

\* Option<T>: None is the empty sequence, Some(x) the one-element sequence.
None == << >>
Some(x) == << x >>

\* Narrowing to / wrapping in a 16-bit unsigned integer (Offset, SlotId, u16).
AsU16(x) == x % 65536

\* u16::from_le_bytes(data[loc..loc+2])
from_le_bytes(d, loc) == d[loc] + 256 * d[loc + 1]

\* data[loc..loc+2].copy_from_slice(&v.to_le_bytes())
to_le_bytes(d, loc, v) ==
  [d EXCEPT ![loc] = AsU16(v) % 256, ![loc + 1] = AsU16(v) \div 256]

\* data[from..to].clone_from_slice(bytes), with to - from = Len(bytes)
clone_from_slice(d, from, to, bytes) ==
  [i \in DOMAIN d |-> IF i >= from /\ i < to THEN bytes[i - from + 1] ELSE d[i]]

\* data[from..to].fill(0)
fill_zero(d, from, to) ==
  [i \in DOMAIN d |-> IF i >= from /\ i < to THEN 0 ELSE d[i]]

\* a variant of copy_within that moves nothing
copy_within_nothing(d, from, to, dest) == d

\* data.copy_within(from..to, dest): a memmove, the source is read before any write
copy_within(d, from, to, dest) ==
  [i \in DOMAIN d |->
     IF i >= dest /\ i < dest + (to - from) THEN d[from + (i - dest)] ELSE d[i]]

\* data[from..to].to_vec()
to_vec(d, from, to) == [k \in 1..(to - from) |-> d[from + k - 1]]

(***************************************************************************)
(* Header fields of a page.                                                *)
(***************************************************************************)
get_num_slots(d) == from_le_bytes(d, NUMSLOTS_LOC)
update_num_slots(d, num_slots) == to_le_bytes(d, NUMSLOTS_LOC, num_slots)

\* a variant of get_first_offset that always answers the end of the page
get_first_offset_page_end(d) == AsU16(PAGE_SIZE)

get_first_offset(d) ==
  LET cur_offset == from_le_bytes(d, FIRSTOFFSET_LOC)
  IN IF cur_offset = 0 THEN AsU16(PAGE_SIZE) ELSE cur_offset
update_first_offset(d, new_first_offset) ==
  to_le_bytes(d, FIRSTOFFSET_LOC, new_first_offset)

get_total_slot_headers(d) == from_le_bytes(d, TOTSLOTS_LOC)
\* a variant of update_total_slot_headers that leaves the count as it is
update_total_slot_headers_nothing(d, new_num) == d
update_total_slot_headers(d, new_num) == to_le_bytes(d, TOTSLOTS_LOC, new_num)

(***************************************************************************)
(* Fields of one slot directory entry, at byte location loc.               *)
(***************************************************************************)
get_slot_size(d, loc) == from_le_bytes(d, loc + SLOTID_SIZE)
update_slot_size(d, slotsize, loc) == to_le_bytes(d, loc + SLOTID_SIZE, slotsize)
get_slot_offset(d, loc) == from_le_bytes(d, loc + SLOTID_SIZE + OFFSET_SIZE)
update_slot_offset(d, new_offset, loc) ==
  to_le_bytes(d, loc + SLOTID_SIZE + OFFSET_SIZE, new_offset)

get_header_size(d) == META_HEADER_SIZE + SLOT_META_SIZE * get_total_slot_headers(d)

\* a variant of get_free_space that forgets the slot directory
get_free_space_no_directory(d) ==
  LET first == get_first_offset(d)
  IN IF first < META_HEADER_SIZE THEN 0 ELSE first - META_HEADER_SIZE

get_free_space(d) ==
  LET first == get_first_offset(d)
      headersize == get_header_size(d)
  IN IF first < headersize THEN 0 ELSE first - headersize

\* Page::new(page_id): a zeroed buffer carrying the page id.
PageNew(page_id) ==
  to_le_bytes([i \in 0..(PAGE_SIZE - 1) |-> 0], PAGEID_LOC, page_id)

(***************************************************************************)
(* get_next_slotid: the ids of the directory entries that are not zeroed   *)
(* are collected, sorted, and scanned for the first gap.                   *)
(***************************************************************************)
RECURSIVE collect_slotids(_, _, _)
collect_slotids(d, cur_loc, total_space) ==
  IF cur_loc >= total_space THEN << >>
  ELSE LET cur_slotid == from_le_bytes(d, cur_loc)
       IN IF cur_slotid = 0 /\ get_slot_offset(d, cur_loc) = 0
          THEN collect_slotids(d, cur_loc + SLOT_META_SIZE, total_space)
          ELSE << cur_slotid >> \o collect_slotids(d, cur_loc + SLOT_META_SIZE, total_space)

\* Vec::sort (ascending), by insertion
RECURSIVE insert_sorted(_, _)
insert_sorted(x, vec) ==
  IF vec = << >> THEN << x >>
  ELSE IF x <= Head(vec) THEN << x >> \o vec
  ELSE << Head(vec) >> \o insert_sorted(x, Tail(vec))

RECURSIVE sort(_)
sort(vec) == IF vec = << >> THEN << >> ELSE insert_sorted(Head(vec), sort(Tail(vec)))

\* the for loop of get_next_slotid over the sorted ids
RECURSIVE first_gap(_, _, _, _)
first_gap(slot_vec, i, exp_id, min_missing) ==
  IF i > Len(slot_vec) THEN min_missing
  ELSE IF slot_vec[i] # exp_id THEN exp_id
  ELSE first_gap(slot_vec, i + 1, AsU16(slot_vec[i] + 1), min_missing)

\* a variant of get_next_slotid that never reuses an id
get_next_slotid_no_reuse(d) == get_num_slots(d)
\* a variant of get_next_slotid that looks at no directory entry
get_next_slotid_first(d) == 0

get_next_slotid(d) ==
  LET num_slotids == get_num_slots(d)
      total_slot_headers == get_total_slot_headers(d)
  IN IF total_slot_headers = num_slotids THEN num_slotids
     ELSE LET total_space == META_HEADER_SIZE + total_slot_headers * SLOT_META_SIZE
              slot_vec == sort(collect_slotids(d, META_HEADER_SIZE, total_space))
          IN first_gap(slot_vec, 1, 0, num_slotids)

(***************************************************************************)
(* get_slot_meta_loc: the location of the first directory entry carrying   *)
(* the slot id and not zeroed, or None.                                    *)
(***************************************************************************)
RECURSIVE scan_slot_meta(_, _, _, _)
scan_slot_meta(d, slot, cur_loc, total_space) ==
  IF cur_loc >= total_space THEN None
  ELSE LET cur_slotid == from_le_bytes(d, cur_loc)
       IN IF cur_slotid = slot
          THEN IF cur_slotid = 0 /\ get_slot_offset(d, cur_loc) = 0
               THEN scan_slot_meta(d, slot, cur_loc + SLOT_META_SIZE, total_space)
               ELSE Some(cur_loc)
          ELSE scan_slot_meta(d, slot, cur_loc + SLOT_META_SIZE, total_space)

\* a variant of get_slot_meta_loc that takes a zeroed entry for slot 0
RECURSIVE scan_slot_meta_zeroed(_, _, _, _)
scan_slot_meta_zeroed(d, slot, cur_loc, total_space) ==
  IF cur_loc >= total_space THEN None
  ELSE IF from_le_bytes(d, cur_loc) = slot THEN Some(cur_loc)
  ELSE scan_slot_meta_zeroed(d, slot, cur_loc + SLOT_META_SIZE, total_space)

get_slot_meta_loc_zeroed(d, slot) ==
  scan_slot_meta_zeroed(d, slot, META_HEADER_SIZE,
                        META_HEADER_SIZE + get_total_slot_headers(d) * SLOT_META_SIZE)

get_slot_meta_loc(d, slot) ==
  scan_slot_meta(d, slot, META_HEADER_SIZE,
                 META_HEADER_SIZE + get_total_slot_headers(d) * SLOT_META_SIZE)

(***************************************************************************)
(* add_value: [data |-> the page afterwards, ret |-> Option<SlotId>,       *)
(* panic |-> whether the call panicked].  clone_from_slice panics when the *)
(* payload and the window it is copied to differ in length; the header     *)
(* and the slot id of the new entry are written before it.                 *)
(***************************************************************************)
\* the body of the if: the header, the new directory entry and the payload are written
add_value_store(d, bytes) ==
  LET entry_size == AsU16(Len(bytes))
      slot_id == get_next_slotid(d)
      end_at == get_first_offset(d)
      d1 == update_num_slots(d, get_num_slots(d) + 1)
      d2 == update_first_offset(d1, end_at - entry_size)
      slotmetaloc == META_HEADER_SIZE + SLOT_META_SIZE * get_total_slot_headers(d2)
      d3 == update_total_slot_headers(d2, get_total_slot_headers(d2) + 1)
      d4 == to_le_bytes(d3, slotmetaloc, slot_id)
      d5 == clone_from_slice(d4, end_at - entry_size, end_at, bytes)
      d6 == update_slot_offset(d5, end_at, slotmetaloc)
      d7 == update_slot_size(d6, entry_size, slotmetaloc)
  IN IF Len(bytes) # entry_size
     THEN [data |-> d4, ret |-> None, panic |-> TRUE]
     ELSE [data |-> d7, ret |-> Some(slot_id), panic |-> FALSE]

\* a variant of add_value whose space test forgets the directory entry
add_value_no_meta(d, bytes) ==
  IF get_free_space(d) >= AsU16(Len(bytes))
  THEN add_value_store(d, bytes)
  ELSE [data |-> d, ret |-> None, panic |-> FALSE]

add_value(d, bytes) ==
  LET entry_size == AsU16(Len(bytes))
  IN IF get_free_space(d) >= entry_size + SLOT_META_SIZE
     THEN add_value_store(d, bytes)
     ELSE [data |-> d, ret |-> None, panic |-> FALSE]

(***************************************************************************)
(* get_value: Option<Vec<u8>>.                                             *)
(***************************************************************************)
get_value(d, slot_id) ==
  LET found == get_slot_meta_loc(d, slot_id)
  IN IF found = None THEN None
     ELSE LET slotmetaloc == found[1]
              slot_size == get_slot_size(d, slotmetaloc)
              offset == get_slot_offset(d, slotmetaloc)
          IN Some(to_vec(d, offset - slot_size, offset))

(***************************************************************************)
(* compact: the payloads of the entries that follow the deleted one in the *)
(* directory are moved up, one after the other, to end at del_offset.      *)
(***************************************************************************)
RECURSIVE compact_loop(_, _, _, _, _)
compact_loop(d, cur_loc, total_slot_space, new_starting_idx, new_offset) ==
  IF cur_loc >= total_slot_space THEN d
  ELSE LET slots_offset == get_slot_offset(d, cur_loc)
       IN IF slots_offset # 0
          THEN LET slots_size == get_slot_size(d, cur_loc)
                   nsi == AsU16(new_offset - slots_size)
                   d1 == copy_within(d, slots_offset - slots_size, slots_offset, nsi)
                   d2 == update_slot_offset(d1, new_offset, cur_loc)
               IN compact_loop(d2, cur_loc + SLOT_META_SIZE, total_slot_space, nsi, nsi)
          ELSE compact_loop(d, cur_loc + SLOT_META_SIZE, total_slot_space,
                            new_starting_idx, new_starting_idx)

\* a variant of compact that leaves the hole
compact_nothing(d, del_offset, del_meta_loc) == d

compact(d, del_offset, del_meta_loc) ==
  compact_loop(d, del_meta_loc + SLOT_META_SIZE,
               META_HEADER_SIZE + get_total_slot_headers(d) * SLOT_META_SIZE,
               del_offset, del_offset)

(***************************************************************************)
(* delete_value: [data |-> the page afterwards, ret |-> Option<()>].       *)
(***************************************************************************)
delete_value(d, slot_id) ==
  LET found == get_slot_meta_loc(d, slot_id)
  IN IF found = None THEN [data |-> d, ret |-> None]
     ELSE LET slotmetaloc == found[1]
              slot_size == get_slot_size(d, slotmetaloc)
              offset == get_slot_offset(d, slotmetaloc)
              d1 == fill_zero(d, offset - slot_size, offset)
              d2 == compact(d1, offset, slotmetaloc)
              d3 == fill_zero(d2, slotmetaloc, slotmetaloc + SLOTID_SIZE)
              d4 == update_slot_size(d3, 0, slotmetaloc)
              d5 == update_slot_offset(d4, 0, slotmetaloc)
              d6 == update_num_slots(d5, get_num_slots(d5) - 1)
              d7 == update_first_offset(d6, get_first_offset(d6) + slot_size)
          IN [data |-> d7, ret |-> Some(TRUE)]

(***************************************************************************)
(* HeapPageIntoIter: [page, next_slot]; next gives the item (None at the   *)
(* end) and the iterator afterwards.                                       *)
(***************************************************************************)
\* a variant of next that ends the iteration at the first slot id without a value
page_iter_next_no_skip(it) ==
  IF it.next_slot >= get_total_slot_headers(it.page)
  THEN [item |-> None, iter |-> it]
  ELSE LET v == get_value(it.page, it.next_slot)
           it1 == [it EXCEPT !.next_slot = AsU16(it.next_slot + 1)]
       IN IF v # None
          THEN [item |-> Some(<< v[1], it.next_slot >>), iter |-> it1]
          ELSE [item |-> None, iter |-> it1]

RECURSIVE page_iter_next(_)
page_iter_next(it) ==
  IF it.next_slot >= get_total_slot_headers(it.page)
  THEN [item |-> None, iter |-> it]
  ELSE LET v == get_value(it.page, it.next_slot)
           it1 == [it EXCEPT !.next_slot = AsU16(it.next_slot + 1)]
       IN IF v # None
          THEN [item |-> Some(<< v[1], it.next_slot >>), iter |-> it1]
          ELSE page_iter_next(it1)

new_iter(d, slot) == [page |-> d, next_slot |-> slot]
\* a variant of into_iter that starts after slot 0
into_iter_from_one(d) == new_iter(d, 1)

into_iter(d) == [page |-> d, next_slot |-> 0]

(***************************************************************************)
(* HeapFile: the pages of one container, in page id order.  The file is a  *)
(* sequence of page buffers; page id p is element p + 1.                   *)
(***************************************************************************)
Ok(x) == [ok |-> TRUE, val |-> x]
Err == [ok |-> FALSE, val |-> << >>]

num_pages(hf) == Len(hf)

\* reads PAGE_SIZE bytes at page_id * PAGE_SIZE; an error past the end of the file
read_page_from_file(hf, page_id) ==
  IF page_id < Len(hf) THEN Ok(hf[page_id + 1]) ELSE Err

\* writes PAGE_SIZE bytes at page.page_id * PAGE_SIZE, appending at the end of the file
write_page_to_file(hf, pg) ==
  LET pid == from_le_bytes(pg, PAGEID_LOC)
  IN IF pid < Len(hf) THEN [hf EXCEPT ![pid + 1] = pg] ELSE Append(hf, pg)

\* ValueId of the one container modelled: (page_id, slot_id), each an Option
ValueId(page_id, slot_id) == [page_id |-> page_id, slot_id |-> slot_id]

(***************************************************************************)
(* StorageManager::insert_value: [hf |-> the file afterwards, ret |-> the  *)
(* ValueId returned, panic |-> whether it panicked].                       *)
(***************************************************************************)
\* the while loop: the result of add_value on the pages after working_pid, in
\* turn, until one accepts the value or read_page_from_file fails
RECURSIVE insert_scan(_, _, _, _, _, _)
insert_scan(hf, value, tot_pages, working_pid, pg, potential_add) ==
  IF potential_add = None /\ working_pid < tot_pages
  THEN LET read == read_page_from_file(hf, AsU16(working_pid + 1))
       IN IF read.ok
          THEN LET r == add_value(read.val, value)
               IN insert_scan(hf, value, tot_pages, AsU16(working_pid + 1), r.data, r.ret)
          ELSE [working_pid |-> AsU16(working_pid + 1), page |-> pg,
                potential_add |-> potential_add]
  ELSE [working_pid |-> working_pid, page |-> pg, potential_add |-> potential_add]

\* a variant of insert_value whose new page takes the page id after tot_pages
insert_value_skip_page_id(hf, value) ==
  IF Len(value) > PAGE_SIZE
  THEN [hf |-> hf, ret |-> ValueId(None, None), panic |-> TRUE]
  ELSE LET tot_pages == num_pages(hf)
       IN IF tot_pages = 0
          THEN LET r == add_value(PageNew(0), value)
               IN [hf |-> write_page_to_file(hf, r.data),
                   ret |-> ValueId(Some(0), r.ret), panic |-> FALSE]
          ELSE LET first == add_value(read_page_from_file(hf, 0).val, value)
                   scan == insert_scan(hf, value, tot_pages, 0, first.data, first.ret)
               IN IF scan.working_pid = tot_pages
                  THEN LET r == add_value(PageNew(AsU16(scan.working_pid + 1)), value)
                       IN [hf |-> write_page_to_file(hf, r.data),
                           ret |-> ValueId(Some(AsU16(scan.working_pid + 1)), r.ret),
                           panic |-> FALSE]
                  ELSE [hf |-> write_page_to_file(hf, scan.page),
                        ret |-> ValueId(Some(scan.working_pid), scan.potential_add),
                        panic |-> FALSE]

insert_value(hf, value) ==
  IF Len(value) > PAGE_SIZE
  THEN [hf |-> hf, ret |-> ValueId(None, None), panic |-> TRUE]
  ELSE LET tot_pages == num_pages(hf)
       IN IF tot_pages = 0
          THEN LET r == add_value(PageNew(0), value)
               IN [hf |-> write_page_to_file(hf, r.data),
                   ret |-> ValueId(Some(0), r.ret), panic |-> FALSE]
          ELSE LET first == add_value(read_page_from_file(hf, 0).val, value)
                   scan == insert_scan(hf, value, tot_pages, 0, first.data, first.ret)
               IN IF scan.working_pid = tot_pages
                  THEN LET r == add_value(PageNew(scan.working_pid), value)
                       IN [hf |-> write_page_to_file(hf, r.data),
                           ret |-> ValueId(Some(scan.working_pid), r.ret),
                           panic |-> FALSE]
                  ELSE [hf |-> write_page_to_file(hf, scan.page),
                        ret |-> ValueId(Some(scan.working_pid), scan.potential_add),
                        panic |-> FALSE]

(***************************************************************************)
(* StorageManager::delete_value: [hf |-> the file afterwards, ret |-> Ok   *)
(* or Err].                                                                *)
(***************************************************************************)
sm_delete_value(hf, id) ==
  IF id.page_id = None \/ id.slot_id = None THEN [hf |-> hf, ret |-> Ok(TRUE)]
  ELSE LET read == read_page_from_file(hf, id.page_id[1])
       IN IF ~read.ok THEN [hf |-> hf, ret |-> Err]
          ELSE LET r == delete_value(read.val, id.slot_id[1])
               IN [hf |-> write_page_to_file(hf, r.data), ret |-> Ok(TRUE)]

\* a variant of update_value that inserts the value and deletes nothing
sm_update_value_insert_only(hf, value, id) ==
  LET r == insert_value(hf, value)
  IN [hf |-> r.hf, ret |-> Ok(r.ret), panic |-> r.panic]

(***************************************************************************)
(* StorageManager::update_value: [hf |-> the file afterwards, ret |-> Ok   *)
(* of the new ValueId or Err, panic |-> whether insert_value panicked].    *)
(***************************************************************************)
sm_update_value(hf, value, id) ==
  LET d == sm_delete_value(hf, id)
  IN IF ~d.ret.ok THEN [hf |-> d.hf, ret |-> Err, panic |-> FALSE]
     ELSE LET r == insert_value(d.hf, value)
          IN [hf |-> r.hf, ret |-> Ok(r.ret), panic |-> r.panic]

(***************************************************************************)
(* StorageManager::get_value: Ok(bytes) or Err.                            *)
(***************************************************************************)
sm_get_value(hf, id) ==
  IF id.page_id = None \/ id.slot_id = None THEN Err
  ELSE LET read == read_page_from_file(hf, id.page_id[1])
       IN IF ~read.ok THEN Err
          ELSE LET v == get_value(read.val, id.slot_id[1])
               IN IF v = None THEN Err ELSE Ok(v[1])

(***************************************************************************)
(* HeapFileIterator: [cur_iter, cur_pageid, cur_slotid]; next gives the    *)
(* item, Some(<<bytes, ValueId>>) or None at the end, and the iterator     *)
(* afterwards.  The heap file is read at every call.                       *)
(***************************************************************************)
HeapFileIterator_new ==
  [cur_iter |-> None, cur_pageid |-> 0, cur_slotid |-> 0]

HeapFileIterator_new_from(value_id) ==
  [cur_iter |-> None, cur_pageid |-> value_id.page_id[1],
   cur_slotid |-> value_id.slot_id[1]]

\* the ValueId built for a yielded record
yielded_value_id(it, slotid) == ValueId(Some(it.cur_pageid), Some(it.cur_slotid))

RECURSIVE hfi_next(_, _)
hfi_next(hf, it) ==
  IF it.cur_pageid >= num_pages(hf) THEN [item |-> None, iter |-> it]
  ELSE LET pg == read_page_from_file(hf, it.cur_pageid).val
           clone == pg
           cur_iter == IF it.cur_slotid = 0 THEN Some(into_iter(pg))
                       ELSE IF it.cur_iter = None THEN Some(new_iter(pg, it.cur_slotid))
                       ELSE it.cur_iter
           potential == page_iter_next(cur_iter[1])
       IN IF potential.item = None
          THEN hfi_next(hf, [cur_iter |-> Some(potential.iter),
                             cur_pageid |-> AsU16(it.cur_pageid + 1),
                             cur_slotid |-> 0])
          ELSE LET vec == potential.item[1][1]
                   slotid == potential.item[1][2]
                   our_val == yielded_value_id(it, slotid)
               IN [item |-> Some(<< vec, our_val >>),
                   iter |->
                     IF it.cur_slotid + 1 = get_num_slots(clone)
                     THEN [cur_iter |-> Some(potential.iter),
                           cur_pageid |-> AsU16(it.cur_pageid + 1),
                           cur_slotid |-> 0]
                     ELSE [cur_iter |-> Some(potential.iter),
                           cur_pageid |-> it.cur_pageid,
                           cur_slotid |-> AsU16(it.cur_slotid + 1)]]

(***************************************************************************)
(* The container map of a StorageManager and its persistence.  A path is   *)
(* a sequence of bytes (a PathBuf on Unix), a string a sequence of Unicode *)
(* scalar values.  The paths considered hold ASCII bytes and bytes that    *)
(* are not part of any valid UTF-8 sequence.                               *)
(***************************************************************************)
\* the UTF-8 encoding of one scalar value below 65536
utf8_encode(c) ==
  IF c < 128 THEN << c >>
  ELSE IF c < 2048 THEN << 192 + (c \div 64), 128 + (c % 64) >>
  ELSE << 224 + (c \div 4096), 128 + ((c \div 64) % 64), 128 + (c % 64) >>

\* Path::to_string_lossy: every byte that is not valid UTF-8 becomes U+FFFD
to_string_lossy(path) ==
  [i \in 1..Len(path) |-> IF path[i] < 128 THEN path[i] ELSE 65533]

\* PathBuf::from(String): the UTF-8 bytes of the string
RECURSIVE PathBuf_from(_)
PathBuf_from(str) ==
  IF str = << >> THEN << >> ELSE utf8_encode(Head(str)) \o PathBuf_from(Tail(str))

\* u16::to_string: the decimal digits
RECURSIVE u16_to_string(_)
u16_to_string(n) ==
  IF n < 10 THEN << 48 + n >> ELSE u16_to_string(n \div 10) \o << 48 + (n % 10) >>

\* the u16 a JSON object key parses to
RECURSIVE parse_u16(_)
parse_u16(str) ==
  IF str = << >> THEN 0 ELSE 10 * parse_u16(SubSeq(str, 1, Len(str) - 1)) + (str[Len(str)] - 48)

\* Path::join with a relative file name
join(dir, name) == dir \o << 47 >> \o name

\* "heapfile" followed by the container id
heapfile_name(container_id) ==
  << 104, 101, 97, 112, 102, 105, 108, 101 >> \o u16_to_string(container_id)

\* The file at path is directly inside the directory dir.
InDir(path, dir) ==
  /\ Len(path) > Len(dir) + 1
  /\ SubSeq(path, 1, Len(dir) + 1) = dir \o << 47 >>
  /\ \A i \in (Len(dir) + 2)..Len(path) : path[i] # 47

\* HeapFile::new(path, container_id): opens the file, creating it when it does not
\* exist; an error when its directory does not exist.  fs maps the paths of the
\* files on disk to their contents; dir is the one directory that exists.
HeapFile_new(fs, dir, path) ==
  IF path \in DOMAIN fs THEN Ok(fs)
  ELSE IF InDir(path, dir)
  THEN Ok([q \in DOMAIN fs \cup {path} |-> IF q = path THEN << >> ELSE fs[q]])
  ELSE Err

\* The result of an operation of the manager: the map and the files afterwards,
\* and ret: "ok", "err" or "panic".
CmResult(map, fs, ret) == [map |-> map, fs |-> fs, ret |-> ret]

create_container(map, fs, dir, container_id) ==
  LET path == join(dir, heapfile_name(container_id))
      open == HeapFile_new(fs, dir, path)
  IN IF open.ok
     THEN CmResult([c \in DOMAIN map \cup {container_id} |->
                      IF c = container_id THEN path ELSE map[c]], open.val, "ok")
     ELSE CmResult(map, fs, "err")

remove_container(map, fs, dir, container_id) ==
  IF container_id \notin DOMAIN map THEN CmResult(map, fs, "panic")
  ELSE LET hf_name == map[container_id]
       IN CmResult([c \in DOMAIN map \ {container_id} |-> map[c]],
                   [q \in DOMAIN fs \ {hf_name} |-> fs[q]], "ok")

\* insert_value on the container's file, after the lookup in the map
cm_insert_value(map, fs, dir, container_id, value) ==
  IF container_id \notin DOMAIN map THEN CmResult(map, fs, "panic")
  ELSE LET open == HeapFile_new(fs, dir, map[container_id])
       IN IF ~open.ok THEN CmResult(map, fs, "panic")
          ELSE LET r == insert_value(open.val[map[container_id]], value)
               IN IF r.panic THEN CmResult(map, open.val, "panic")
                  ELSE CmResult(map, [open.val EXCEPT ![map[container_id]] = r.hf], "ok")

\* get_value on the container's file, after the lookup in the map: Ok(bytes), Err,
\* or "panic"
cm_get_value(map, fs, dir, container_id, id) ==
  IF container_id \notin DOMAIN map THEN "panic"
  ELSE LET open == HeapFile_new(fs, dir, map[container_id])
       IN IF ~open.ok THEN "panic"
          ELSE sm_get_value(open.val[map[container_id]], id)

\* shutdown: the JSON object written to container_to_hf.json, its keys the
\* container ids as strings and its values the lossy strings of the paths
shutdown(map) ==
  [k \in { u16_to_string(c) : c \in DOMAIN map } |->
     to_string_lossy(map[CHOOSE c \in DOMAIN map : u16_to_string(c) = k])]

\* new: the map read from container_to_hf.json when the file exists (the
\* directory exists), and the empty map otherwise
StorageManager_new(json) ==
  IF json = None THEN << >>
  ELSE [c \in { parse_u16(k) : k \in DOMAIN json[1] } |->
          PathBuf_from(json[1][u16_to_string(c)])]

(***************************************************************************)
(* Fields and tuples (the common crate).  A Field is Int or Decimal; a     *)
(* Decimal is kept as a fraction in lowest terms.  A Tuple is a sequence   *)
(* of Fields, an expression the index of a column.                         *)
(***************************************************************************)
Abs(n) == IF n < 0 THEN -n ELSE n

RECURSIVE Gcd(_, _)
Gcd(a, b) == IF b = 0 THEN a ELSE Gcd(b, a % b)

FInt(n) == [kind |-> "Int", num |-> n, den |-> 1]
FDec(n, d) ==
  LET g == Gcd(Abs(n), d)
  IN [kind |-> "Decimal", num |-> n \div g, den |-> d \div g]

\* f_decimal(c as f64)
f_decimal(c) == FDec(c, 1)

\* a < b and a > b for two Fields of one kind
field_lt(a, b) == a.num * b.den < b.num * a.den
field_gt(a, b) == field_lt(b, a)

\* a + b: Ok of the sum of two Fields of one kind, Err otherwise
field_add(a, b) ==
  IF a.kind = "Int" /\ b.kind = "Int" THEN Ok(FInt(a.num + b.num))
  ELSE IF a.kind = "Decimal" /\ b.kind = "Decimal"
  THEN Ok(FDec(a.num * b.den + b.num * a.den, a.den * b.den))
  ELSE Err

\* a / b for two Decimals: Ok of the quotient, Err otherwise
field_div(a, b) ==
  IF a.kind = "Decimal" /\ b.kind = "Decimal" /\ b.num > 0
  THEN Ok(FDec(a.num * b.den, a.den * b.num))
  ELSE Err

\* expr.eval(tuple) for the expression that reads one column
eval(expr, tuple) == tuple[expr]

(***************************************************************************)
(* Aggregate.  The hashmap maps a group key (a sequence of Fields) to one  *)
(* sequence of Fields per aggregate.  An update gives [st |-> the new      *)
(* sequence, panic |-> whether the code panics].                           *)
(***************************************************************************)
AggSt(st, panic) == [st |-> st, panic |-> panic]

\* the match on self.ops[idx] in merge_tuple_into_group, for one aggregate
agg_update(op, st, tuple_val) ==
  CASE op = "Min" ->
         IF st = << >> THEN AggSt(<< tuple_val >>, FALSE)
         ELSE IF field_lt(tuple_val, st[1]) THEN AggSt(<< tuple_val >>, FALSE)
         ELSE AggSt(st, FALSE)
    [] op = "Max" ->
         IF st = << >> THEN AggSt(<< tuple_val >>, FALSE)
         ELSE IF field_gt(tuple_val, st[1]) THEN AggSt(<< tuple_val >>, FALSE)
         ELSE AggSt(st, FALSE)
    [] op = "Count" ->
         LET s0 == IF st = << >> THEN << FInt(0) >> ELSE st
         IN IF s0[1].kind = "Int" THEN AggSt(<< FInt(s0[1].num + 1) >>, FALSE)
            ELSE AggSt(s0, TRUE)
    [] op = "Sum" ->
         IF st = << >> THEN AggSt(<< tuple_val >>, FALSE)
         ELSE LET sum == field_add(tuple_val, st[1])
              IN IF sum.ok THEN AggSt(<< sum.val >>, FALSE) ELSE AggSt(st, TRUE)
    [] op = "Avg" ->
         IF st = << >> THEN AggSt(<< FInt(1), tuple_val >>, FALSE)
         ELSE IF st[1].kind # "Int" THEN AggSt(st, TRUE)
         ELSE LET sum == field_add(tuple_val, st[2])
              IN IF sum.ok THEN AggSt(<< FInt(st[1].num + 1), sum.val >>, FALSE)
                 ELSE AggSt(<< FInt(st[1].num + 1), st[2] >>, TRUE)

\* a variant of merge_tuple_into_group that starts the state of the group anew at
\* every tuple
merge_tuple_into_group_anew(hashmap, cfg, tuple) ==
  LET groupkey == [i \in 1..Len(cfg.groupby_expr) |-> eval(cfg.groupby_expr[i], tuple)]
      upd == [idx \in 1..Len(cfg.agg_expr) |->
                agg_update(cfg.ops[idx], << >>, eval(cfg.agg_expr[idx], tuple))]
      vec == [idx \in 1..Len(cfg.agg_expr) |-> upd[idx].st]
  IN [hashmap |-> [k \in DOMAIN hashmap \cup {groupkey} |->
                     IF k = groupkey THEN vec ELSE hashmap[k]],
      panic |-> \E idx \in 1..Len(cfg.agg_expr) : upd[idx].panic]

\* merge_tuple_into_group: [hashmap, panic]
merge_tuple_into_group(hashmap, cfg, tuple) ==
  LET groupkey == [i \in 1..Len(cfg.groupby_expr) |-> eval(cfg.groupby_expr[i], tuple)]
      firsttime == groupkey \notin DOMAIN hashmap
      upd == [idx \in 1..Len(cfg.agg_expr) |->
                agg_update(cfg.ops[idx],
                           IF firsttime THEN << >> ELSE hashmap[groupkey][idx],
                           eval(cfg.agg_expr[idx], tuple))]
      vec == [idx \in 1..Len(cfg.agg_expr) |-> upd[idx].st]
  IN [hashmap |-> [k \in DOMAIN hashmap \cup {groupkey} |->
                     IF k = groupkey THEN vec ELSE hashmap[k]],
      panic |-> \E idx \in 1..Len(cfg.agg_expr) : upd[idx].panic]

\* the loop of open: the tuples of the child merged in turn, up to a panic
RECURSIVE merge_all(_, _, _)
merge_all(hashmap, cfg, tuples) ==
  IF tuples = << >> THEN [hashmap |-> hashmap, panic |-> FALSE]
  ELSE LET m == merge_tuple_into_group(hashmap, cfg, Head(tuples))
       IN IF m.panic THEN m ELSE merge_all(m.hashmap, cfg, Tail(tuples))

\* the field next pushes for one aggregate of a group: [fields, panic]
agg_result_field(agg_result) ==
  IF Len(agg_result) > 1
  THEN IF agg_result[1].kind # "Int" \/ agg_result[2].kind # "Int"
       THEN [fields |-> << >>, panic |-> TRUE]
       ELSE LET avg == field_div(f_decimal(agg_result[2].num), f_decimal(agg_result[1].num))
            IN IF avg.ok THEN [fields |-> << avg.val >>, panic |-> FALSE]
               ELSE [fields |-> << >>, panic |-> TRUE]
  ELSE IF agg_result # << >> THEN [fields |-> << agg_result[1] >>, panic |-> FALSE]
  ELSE [fields |-> << >>, panic |-> FALSE]

RECURSIVE agg_result_fields(_)
agg_result_fields(val) ==
  IF val = << >> THEN [fields |-> << >>, panic |-> FALSE]
  ELSE LET f == agg_result_field(Head(val))
           rest == agg_result_fields(Tail(val))
       IN [fields |-> f.fields \o rest.fields, panic |-> f.panic \/ rest.panic]

\* Aggregate::next on an open operator whose hashmap iterates in the order of
\* `order`: [item |-> None or Some(tuple), current_index, panic]
agg_next(hashmap, order, current_index) ==
  IF current_index < Len(order)
  THEN LET groupkey == order[current_index + 1]
           r == agg_result_fields(hashmap[groupkey])
       IN IF r.panic THEN [item |-> None, current_index |-> current_index, panic |-> TRUE]
          ELSE [item |-> Some(groupkey \o r.fields), current_index |-> current_index + 1,
                panic |-> FALSE]
  ELSE [item |-> None, current_index |-> current_index, panic |-> FALSE]

\* Aggregate::rewind without the test of self.open
agg_rewind_unchecked(a) == [agg |-> [a EXCEPT !.current_index = Some(0)], panic |-> FALSE]

\* Aggregate::rewind: [agg, panic]
agg_rewind(a) ==
  IF ~a.open THEN [agg |-> a, panic |-> TRUE]
  ELSE [agg |-> [a EXCEPT !.current_index = Some(0)], panic |-> FALSE]

\* a variant of close that keeps the hashmap
agg_close_keep_hashmap(a) ==
  [a EXCEPT !.child_open = FALSE, !.child_pos = 0, !.open = FALSE, !.current_index = None]

\* Aggregate::close; the hashmap iterates over no key once it is cleared
agg_close(a) ==
  [a EXCEPT !.child_open = FALSE, !.child_pos = 0, !.open = FALSE, !.hashmap = << >>,
            !.order = << >>, !.current_index = None]

(***************************************************************************)
(* HashEqJoin.  The left_hashmap maps a key (a Field) to the left tuples   *)
(* with that key, in the order the left child yielded them.  The children  *)
(* yield the tuples of a sequence in order: a child is open or not, and     *)
(* left_pos and right_pos are the numbers of tuples the children have      *)
(* yielded since they were opened or rewound.  open and rewind put a child *)
(* at its first tuple, close closes it, and rewind of a child that is not  *)
(* open panics.  The left and right expressions read the first column.     *)
(***************************************************************************)
left_expr == 1
right_expr == 1

\* left_tuple.merge(right_tuple)
merge(left_tuple, right_tuple) == left_tuple \o right_tuple

\* a variant of the loop of open that keeps one left tuple per key
RECURSIVE build_left_hashmap_replace(_, _)
build_left_hashmap_replace(hashmap, tuples) ==
  IF tuples = << >> THEN hashmap
  ELSE LET cur_tuple == Head(tuples)
           leftfield == eval(left_expr, cur_tuple)
       IN build_left_hashmap_replace(
            [k \in DOMAIN hashmap \cup {leftfield} |->
               IF k = leftfield THEN << cur_tuple >> ELSE hashmap[k]],
            Tail(tuples))

\* the loop of open over the tuples of the left child
RECURSIVE build_left_hashmap(_, _)
build_left_hashmap(hashmap, tuples) ==
  IF tuples = << >> THEN hashmap
  ELSE LET cur_tuple == Head(tuples)
           leftfield == eval(left_expr, cur_tuple)
       IN build_left_hashmap(
            [k \in DOMAIN hashmap \cup {leftfield} |->
               IF k = leftfield
               THEN IF leftfield \in DOMAIN hashmap
                    THEN Append(hashmap[leftfield], cur_tuple)
                    ELSE << cur_tuple >>
               ELSE hashmap[k]],
            Tail(tuples))

HjResult(item, j, panic) == [item |-> item, hj |-> j, panic |-> panic]

\* a variant of the loop of next that never remembers the right tuple
RECURSIVE hj_pull_no_fanout(_, _)
hj_pull_no_fanout(j, right) ==
  IF j.right_pos >= Len(right) THEN HjResult(None, j, FALSE)
  ELSE LET right_tuple == right[j.right_pos + 1]
           searchkey == eval(right_expr, right_tuple)
           j1 == [j EXCEPT !.right_pos = j.right_pos + 1]
       IN IF searchkey \in DOMAIN j.left_hashmap
          THEN HjResult(Some(merge(j.left_hashmap[searchkey][1], right_tuple)), j1, FALSE)
          ELSE hj_pull_no_fanout(j1, right)

\* the loop of next: the right child is pulled until a tuple finds a bucket
RECURSIVE hj_pull(_, _)
hj_pull(j, right) ==
  IF j.right_pos >= Len(right) THEN HjResult(None, j, FALSE)
  ELSE LET right_tuple == right[j.right_pos + 1]
           searchkey == eval(right_expr, right_tuple)
           j1 == [j EXCEPT !.right_pos = j.right_pos + 1]
       IN IF searchkey \in DOMAIN j.left_hashmap
          THEN LET vec == j.left_hashmap[searchkey]
                   j2 == IF Len(vec) > 1
                         THEN [j1 EXCEPT !.current_tuple = Some(right_tuple),
                                         !.current_index = Some(1)]
                         ELSE j1
               IN HjResult(Some(merge(vec[1], right_tuple)), j2, FALSE)
          ELSE hj_pull(j1, right)

\* HashEqJoin::next
hj_next(j, right) ==
  IF ~j.open THEN HjResult(None, j, TRUE)
  ELSE IF j.current_tuple # None
  THEN LET right_tuple == j.current_tuple[1]
           searchkey == eval(right_expr, right_tuple)
       IN IF searchkey \notin DOMAIN j.left_hashmap \/ j.current_index = None
          THEN HjResult(None, j, TRUE)
          ELSE LET vec == j.left_hashmap[searchkey]
                   idx == j.current_index[1]
               IN IF idx < Len(vec)
                  THEN HjResult(Some(merge(vec[idx + 1], right_tuple)),
                                [j EXCEPT !.current_index = Some(idx + 1)], FALSE)
                  ELSE hj_pull([j EXCEPT !.current_tuple = None, !.current_index = None],
                               right)
  ELSE hj_pull(j, right)

\* HashEqJoin::open without the test of self.open
hj_open_unguarded(j, left) ==
  [j EXCEPT !.open = TRUE, !.left_open = TRUE, !.left_pos = Len(left),
            !.right_open = TRUE, !.right_pos = 0,
            !.left_hashmap = build_left_hashmap(j.left_hashmap, left)]

\* HashEqJoin::open: the children are opened and the left child is drained
hj_open(j, left) ==
  IF ~j.open
  THEN [j EXCEPT !.open = TRUE, !.left_open = TRUE, !.left_pos = Len(left),
                 !.right_open = TRUE, !.right_pos = 0,
                 !.left_hashmap = build_left_hashmap(j.left_hashmap, left)]
  ELSE j

\* HashEqJoin::close
hj_close(j) ==
  [j EXCEPT !.left_open = FALSE, !.left_pos = 0, !.right_open = FALSE, !.right_pos = 0,
            !.open = FALSE, !.left_hashmap = << >>]

\* a variant of rewind that forgets to reset the continuation
hj_rewind_keep_continuation(j) ==
  IF ~j.left_open \/ ~j.right_open THEN [hj |-> j, panic |-> TRUE]
  ELSE [hj |-> [j EXCEPT !.left_pos = 0, !.right_pos = 0], panic |-> FALSE]

\* HashEqJoin::rewind: [hj, panic]; the rewind of a child that is not open panics
hj_rewind(j) ==
  IF ~j.left_open THEN [hj |-> j, panic |-> TRUE]
  ELSE IF ~j.right_open THEN [hj |-> [j EXCEPT !.left_pos = 0], panic |-> TRUE]
  ELSE [hj |-> [j EXCEPT !.left_pos = 0, !.right_pos = 0,
                         !.current_tuple = None, !.current_index = None],
        panic |-> FALSE]

(***************************************************************************)
(* NestedLoopJoin.  The children are as those of the HashEqJoin.  The      *)
(* fields exhausted and rewinds count, since the last open or rewind, the  *)
(* times next found the right child exhausted and the times next rewound   *)
(* the right child.                                                        *)
(***************************************************************************)
\* compare_fields(op, a, b) on two fields of one kind
compare_fields(op, a, b) ==
  CASE op = "Eq" -> a = b
    [] op = "Neq" -> a # b
    [] op = "Lt" -> field_lt(a, b)
    [] op = "Le" -> field_lt(a, b) \/ a = b
    [] op = "Gt" -> field_gt(a, b)
    [] op = "Ge" -> field_gt(a, b) \/ a = b

\* next of a child that has yielded pos of its tuples
child_next(tuples, pos) == IF pos < Len(tuples) THEN Some(tuples[pos + 1]) ELSE None
child_pos_after_next(tuples, pos) == IF pos < Len(tuples) THEN pos + 1 ELSE pos

NlResult(item, n, panic) == [item |-> item, nl |-> n, panic |-> panic]

\* a variant of the loop of next that leaves the right child exhausted
RECURSIVE nl_loop_no_rewind(_, _, _, _)
nl_loop_no_rewind(n, left, right, op) ==
  IF n.current_tuple = None THEN NlResult(None, n, FALSE)
  ELSE LET left_tuple == n.current_tuple[1]
           leftfield == eval(left_expr, left_tuple)
       IN IF n.right_pos < Len(right)
          THEN LET right_tuple == right[n.right_pos + 1]
                   rightfield == eval(right_expr, right_tuple)
                   n1 == [n EXCEPT !.right_pos = n.right_pos + 1]
               IN IF compare_fields(op, leftfield, rightfield)
                  THEN NlResult(Some(merge(left_tuple, right_tuple)), n1, FALSE)
                  ELSE nl_loop_no_rewind(n1, left, right, op)
          ELSE nl_loop_no_rewind(
                 [n EXCEPT !.exhausted = n.exhausted + 1,
                           !.current_tuple = child_next(left, n.left_pos),
                           !.left_pos = child_pos_after_next(left, n.left_pos)],
                 left, right, op)

\* the loop of next: the right child is advanced under the current left tuple;
\* when it is exhausted it is rewound and the left child is advanced
RECURSIVE nl_loop(_, _, _, _)
nl_loop(n, left, right, op) ==
  IF n.current_tuple = None THEN NlResult(None, n, FALSE)
  ELSE LET left_tuple == n.current_tuple[1]
           leftfield == eval(left_expr, left_tuple)
       IN IF n.right_pos < Len(right)
          THEN LET right_tuple == right[n.right_pos + 1]
                   rightfield == eval(right_expr, right_tuple)
                   n1 == [n EXCEPT !.right_pos = n.right_pos + 1]
               IN IF compare_fields(op, leftfield, rightfield)
                  THEN NlResult(Some(merge(left_tuple, right_tuple)), n1, FALSE)
                  ELSE nl_loop(n1, left, right, op)
          ELSE nl_loop(
                 [n EXCEPT !.exhausted = n.exhausted + 1,
                           !.right_pos = 0,
                           !.rewinds = n.rewinds + 1,
                           !.current_tuple = child_next(left, n.left_pos),
                           !.left_pos = child_pos_after_next(left, n.left_pos)],
                 left, right, op)

\* NestedLoopJoin::next without the test of self.open
nl_next_unchecked(n, left, right, op) == nl_loop(n, left, right, op)

\* NestedLoopJoin::next
nl_next(n, left, right, op) ==
  IF ~n.open THEN NlResult(None, n, TRUE)
  ELSE nl_loop(n, left, right, op)

\* NestedLoopJoin::open: the children are opened and the first left tuple is pulled
nl_open(n, left) ==
  IF ~n.open
  THEN [n EXCEPT !.left_open = TRUE, !.left_pos = child_pos_after_next(left, 0),
                 !.right_open = TRUE, !.right_pos = 0,
                 !.current_tuple = child_next(left, 0),
                 !.open = TRUE, !.exhausted = 0, !.rewinds = 0]
  ELSE n

\* NestedLoopJoin::close
nl_close(n) ==
  [n EXCEPT !.left_open = FALSE, !.left_pos = 0, !.right_open = FALSE, !.right_pos = 0,
            !.open = FALSE]

\* NestedLoopJoin::rewind: [nl, panic]; the rewind of a child that is not open panics
nl_rewind(n, left) ==
  IF ~n.left_open THEN [nl |-> n, panic |-> TRUE]
  ELSE IF ~n.right_open THEN [nl |-> [n EXCEPT !.left_pos = 0], panic |-> TRUE]
  ELSE [nl |-> [n EXCEPT !.left_pos = child_pos_after_next(left, 0), !.right_pos = 0,
                         !.current_tuple = child_next(left, 0),
                         !.exhausted = 0, !.rewinds = 0],
        panic |-> FALSE]

(***************************************************************************)
(* State.                                                                  *)
(*   page     a Page under test (its data buffer)                          *)
(*   added    for each slot id returned by a successful add_value and not  *)
(*            deleted since: the bytes passed to that add_value            *)
(*   last_op  the last Page operation called, its arguments and its result *)
(*   hf       the heap file of a container of a StorageManager            *)
(*   stored   for each (page id, slot id) returned by insert_value and not *)
(*            deleted since: the bytes passed to that insert_value         *)
(*   sm_op    the last StorageManager operation: its name; value, the     *)
(*            bytes passed to insert_value or update_value; id, the        *)
(*            ValueId these returned; arg, the ValueId passed to           *)
(*            update_value when it names a stored record; kind, what the   *)
(*            ValueId passed to delete_value or update_value names; ok,    *)
(*            whether the operation returned Ok                            *)
(*   sm_ops   the number of insert_value, delete_value and update_value    *)
(*            calls so far                                                 *)
(*   hfiter   the HeapFileIterator in use, if any, with the place it was   *)
(*            started from and whether it has returned None                *)
(*   yielded  the items hfiter has returned so far                         *)
(*   cm_dir   the storage directory of the StorageManager                  *)
(*   cm_map   its container map, container id to heap file path            *)
(*   cm_fs    the heap files on disk: path to pages                        *)
(*   cm_json  the contents of container_to_hf.json, if the file exists     *)
(*   cm_op    the last operation on the container map: name, container id, *)
(*            ret ("ok", "err" or "panic") and absent, whether the id was  *)
(*            missing from the map when the operation was called           *)
(*   cm_ops   the number of operations on the container map so far         *)
(*   cm_poisoned  whether the RwLock of the container map is poisoned: a   *)
(*            thread has panicked while it held the write guard            *)
(*   agg_in   the tuples of the child of an Aggregate                      *)
(*   agg_cfg  its group-by expressions, aggregate expressions and ops      *)
(*   agg      the Aggregate: open, hashmap, the order in which the hashmap *)
(*            iterates, current_index                                      *)
(*   agg_out  the tuples next has returned since open or rewind            *)
(*   agg_pc   "new", "open", "done" once next has returned None, "closed", *)
(*            "panic", or "none" when no Aggregate has been constructed    *)
(*   agg_life "fresh" until the Aggregate is reopened or rewound, then     *)
(*            what last restarted it: "reopened" or "rewound"              *)
(*   hj_in    the tuples of the left and of the right child of a join      *)
(*   hj       the HashEqJoin: open, left_hashmap, current_tuple,           *)
(*            current_index, and its children                              *)
(*   hj_out   the tuples next has returned since open or rewind            *)
(*   hj_pc    as agg_pc                                                    *)
(*   hj_life  as agg_life                                                  *)
(*   nl_op    the BooleanOp of a NestedLoopJoin over the children of hj_in *)
(*   nl, nl_out, nl_pc, nl_life   as for the HashEqJoin                    *)
(*   pair     two Pages, "a" and "b", that are compared byte by byte       *)
(*   pair_ops for each of the two, the number of add_value and             *)
(*            delete_value calls so far                                    *)
(*   conc_hf  the heap file of a container that several threads insert     *)
(*            into through one StorageManager                              *)
(*   conc_lock  the thread that holds the write lock of container_to_hf,   *)
(*            or 0                                                         *)
(*   conc_th  for each thread: pc, its place in insert_value; value, the   *)
(*            bytes it inserts; page, the page it is about to write; ret,  *)
(*            the ValueId it returns                                       *)
(***************************************************************************)
VARIABLES page, added, last_op, hf, stored, sm_op, sm_ops, hfiter, yielded,
          cm_dir, cm_map, cm_fs, cm_json, cm_op, cm_ops, cm_poisoned,
          agg_in, agg_cfg, agg, agg_out, agg_pc, agg_life,
          hj_in, hj, hj_out, hj_pc, hj_life,
          nl_op, nl, nl_out, nl_pc, nl_life,
          pair, pair_ops,
          conc_hf, conc_lock, conc_th

pageVars == << page, added, last_op >>
smVars == << hf, stored, sm_op, sm_ops, hfiter, yielded >>
cmVars == << cm_dir, cm_map, cm_fs, cm_json, cm_op, cm_ops, cm_poisoned >>
aggVars == << agg_in, agg_cfg, agg, agg_out, agg_pc, agg_life >>
joinVars == << hj_in, hj, hj_out, hj_pc, hj_life >>
nlVars == << nl_op, nl, nl_out, nl_pc, nl_life >>
pairVars == << pair, pair_ops >>
concVars == << conc_hf, conc_lock, conc_th >>
vars == << pageVars, smVars, cmVars, aggVars, joinVars, nlVars, pairVars, concVars >>
notPageVars == << smVars, cmVars, aggVars, joinVars, nlVars, pairVars, concVars >>
notSmVars == << pageVars, cmVars, aggVars, joinVars, nlVars, pairVars, concVars >>
notCmVars == << pageVars, smVars, aggVars, joinVars, nlVars, pairVars, concVars >>
notAggVars == << pageVars, smVars, cmVars, joinVars, nlVars, pairVars, concVars >>
notJoinVars == << pageVars, smVars, cmVars, aggVars, nlVars, pairVars, concVars >>
notNlVars == << pageVars, smVars, cmVars, aggVars, joinVars, pairVars, concVars >>
notPairVars == << pageVars, smVars, cmVars, aggVars, joinVars, nlVars, concVars >>
notConcVars == << pageVars, smVars, cmVars, aggVars, joinVars, nlVars, pairVars >>

\* The payloads add_value is called with.
Payloads == UNION { [1..n -> ByteVals] : n \in 0..MaxLen }

\* The slot ids get_value and delete_value are called with: every id a page
\* of PAGE_SIZE bytes can hold in its directory, and one more.
SlotArgs == 0..((PAGE_SIZE - META_HEADER_SIZE) \div SLOT_META_SIZE)

\* The page ids Page::new is called with.
PageIds == {258}

NoOp == [name |-> "new", bytes |-> << >>, slot |-> 0, ret |-> None]
NoId == ValueId(None, None)
SmIterOp == [name |-> "get_iterator", value |-> << >>, id |-> NoId, arg |-> NoId,
             kind |-> "", ok |-> TRUE]
SmNoOp == [name |-> "create_container", value |-> << >>, id |-> NoId, arg |-> NoId,
           kind |-> "", ok |-> TRUE]

PageInit ==
  /\ added = << >>
  /\ last_op = NoOp

\* The storage directories new is called with: "d", and "d" followed by the byte
\* 0xFF, which is not valid UTF-8.
StorageDirs == { << 100 >>, << 100, 255 >> }

CmNoOp == [name |-> "new", id |-> 0, ret |-> "ok", absent |-> FALSE]

\* new(dir) on a directory that does not exist yet
CmInit ==
  /\ cm_map = << >>
  /\ cm_fs = << >>
  /\ cm_json = None
  /\ cm_op = CmNoOp
  /\ cm_ops = 0
  /\ cm_poisoned = FALSE

\* Aggregate::new
AggregateNew ==
  [open |-> FALSE, hashmap |-> << >>, order |-> << >>, current_index |-> None,
   child_open |-> FALSE, child_pos |-> 0]

AggInit ==
  /\ agg = AggregateNew
  /\ agg_out = << >>
  /\ agg_pc = "new"
  /\ agg_life = "fresh"

\* No Aggregate has been constructed.
AggIdle ==
  /\ agg_in = << >>
  /\ agg_cfg = [groupby_expr |-> << >>, agg_expr |-> << >>, ops |-> << >>]
  /\ agg = AggregateNew
  /\ agg_out = << >>
  /\ agg_pc = "none"
  /\ agg_life = "fresh"

\* HashEqJoin::new
HashEqJoinNew ==
  [open |-> FALSE, left_hashmap |-> << >>, current_tuple |-> None, current_index |-> None,
   left_open |-> FALSE, left_pos |-> 0, right_open |-> FALSE, right_pos |-> 0]

JoinInit ==
  /\ hj = HashEqJoinNew
  /\ hj_out = << >>
  /\ hj_pc = "new"
  /\ hj_life = "fresh"

\* No HashEqJoin has been constructed.
HjNone ==
  /\ hj = HashEqJoinNew
  /\ hj_out = << >>
  /\ hj_pc = "none"
  /\ hj_life = "fresh"

\* NestedLoopJoin::new
NestedLoopJoinNew ==
  [open |-> FALSE, current_tuple |-> None,
   left_open |-> FALSE, left_pos |-> 0, right_open |-> FALSE, right_pos |-> 0,
   exhausted |-> 0, rewinds |-> 0]

NlInit ==
  /\ nl = NestedLoopJoinNew
  /\ nl_out = << >>
  /\ nl_pc = "new"
  /\ nl_life = "fresh"

\* No NestedLoopJoin has been constructed.
NlNone ==
  /\ nl_op = "Eq"
  /\ nl = NestedLoopJoinNew
  /\ nl_out = << >>
  /\ nl_pc = "none"
  /\ nl_life = "fresh"

\* No join has been constructed.
JoinIdle ==
  /\ hj_in = [left |-> << >>, right |-> << >>]
  /\ HjNone
  /\ NlNone

\* No pair of Pages is constructed.
PairIdle ==
  /\ pair = << >>
  /\ pair_ops = << >>

\* An empty container and no thread.
ConcIdle ==
  /\ conc_hf = << >>
  /\ conc_lock = 0
  /\ conc_th = << >>

SmInit ==
  /\ hf = << >>
  /\ stored = << >>
  /\ sm_op = SmNoOp
  /\ sm_ops = 0
  /\ hfiter = None
  /\ yielded = << >>

(***************************************************************************)
(* Operations on a Page.                                                   *)
(***************************************************************************)
\* p.add_value(bytes)
AddValue ==
  \E bytes \in Payloads :
    \E r \in {add_value(page, bytes)} :
       /\ page' = r.data
       /\ added' = IF r.ret = None THEN added
                   ELSE [s \in DOMAIN added \cup {r.ret[1]} |->
                           IF s = r.ret[1] THEN bytes ELSE added[s]]
       /\ last_op' = [name |-> "add_value", bytes |-> bytes, slot |-> 0, ret |-> r.ret]
       /\ UNCHANGED notPageVars

\* p.delete_value(slot_id)
DeleteValue ==
  \E slot_id \in SlotArgs :
    \E r \in {delete_value(page, slot_id)} :
       /\ page' = r.data
       /\ added' = IF r.ret = None THEN added
                   ELSE [s \in DOMAIN added \ {slot_id} |-> added[s]]
       /\ last_op' = [name |-> "delete_value", bytes |-> << >>, slot |-> slot_id,
                      ret |-> r.ret]
       /\ UNCHANGED notPageVars

\* p.get_value(slot_id)
GetValue ==
  \E slot_id \in SlotArgs :
    /\ last_op' = [name |-> "get_value", bytes |-> << >>, slot |-> slot_id,
                   ret |-> get_value(page, slot_id)]
    /\ UNCHANGED << page, added >>
    /\ UNCHANGED notPageVars

Init ==
  /\ page \in { PageNew(pid) : pid \in PageIds }
  /\ PageInit
  /\ SmInit
  /\ cm_dir = << 100 >>
  /\ CmInit
  /\ PairIdle
  /\ ConcIdle
  /\ AggIdle
  /\ JoinIdle

Next == AddValue \/ DeleteValue \/ GetValue

Spec == Init /\ [][Next]_vars

(***************************************************************************)
(* A Page that is also given payloads of 65535 bytes and more, whose       *)
(* length does not fit in the 16-bit Offset add_value narrows it to.       *)
(* last_op records the length of such a payload, not its bytes.  A panic   *)
(* ends the use of the page.                                               *)
(***************************************************************************)
HugeLens == {65535, 65536, 65536 + MaxLen, 65536 + PAGE_SIZE}

Panicked == last_op.name = "panic"

\* p.add_value(bytes) with a payload of len bytes
AddHugeValue ==
  /\ ~Panicked
  /\ \E len \in HugeLens :
       \E r \in {add_value(page, [i \in 1..len |-> 1])} :
         /\ page' = r.data
         /\ last_op' = [name |-> IF r.panic THEN "panic" ELSE "add_value",
                        bytes |-> << >>, slot |-> 0, ret |-> r.ret, len |-> len]
  /\ UNCHANGED added
  /\ UNCHANGED notPageVars

NarrowNext == (~Panicked /\ (AddValue \/ DeleteValue)) \/ AddHugeValue

NarrowSpec == Init /\ [][NarrowNext]_vars

(***************************************************************************)
(* Operations on a StorageManager with one container, and on the iterator  *)
(* it hands out.  The records are inserted and deleted while no iterator   *)
(* is in use.                                                              *)
(***************************************************************************)
\* The values insert_value is called with: one of each length up to MaxLen, and
\* LargeValue, the shortest value that an empty page has no room for.
SmallValues == { [k \in 1..n |-> n] : n \in 1..MaxLen }
LargeValue == [k \in 1..(PAGE_SIZE - META_HEADER_SIZE - SLOT_META_SIZE + 1) |-> 255]
Values == SmallValues \cup {LargeValue}

\* The ValueIds delete_value and get_iterator_from are called with.
ValueIdArgs == { ValueId(Some(p), Some(s)) : p \in 0..MaxPages, s \in SlotArgs }

Populated(id) == id.page_id # None /\ id.slot_id # None
Key(id) == << id.page_id[1], id.slot_id[1] >>

\* What a ValueId names in the file: nothing (a field unset), a page past the end
\* of the file, a slot without a value, or a stored record.
IdKind(f, id) ==
  IF ~Populated(id) THEN "unset"
  ELSE IF id.page_id[1] >= num_pages(f) THEN "no_page"
  ELSE IF get_value(f[id.page_id[1] + 1], id.slot_id[1]) = None THEN "not_live"
  ELSE "live"

\* sm.insert_value(cid, value, tid)
SmInsertValue ==
  /\ hfiter = None
  /\ sm_ops < MaxOps
  /\ \E value \in Values :
    \E r \in {insert_value(hf, value)} :
       /\ ~r.panic
       /\ Len(r.hf) <= MaxPages
       /\ hf' = r.hf
       /\ stored' = IF Populated(r.ret)
                    THEN [k \in DOMAIN stored \cup {Key(r.ret)} |->
                            IF k = Key(r.ret) THEN value ELSE stored[k]]
                    ELSE stored
       /\ sm_op' = [name |-> "insert_value", value |-> value, id |-> r.ret,
                    arg |-> NoId, kind |-> "", ok |-> TRUE]
       /\ sm_ops' = sm_ops + 1
       /\ UNCHANGED << hfiter, yielded >>
       /\ UNCHANGED notSmVars

\* sm.delete_value(id, tid)
SmDeleteValue ==
  /\ hfiter = None
  /\ sm_ops < MaxOps
  /\ \E id \in ValueIdArgs \cup {NoId} :
    \E r \in {sm_delete_value(hf, id)} :
       /\ hf' = r.hf
       /\ stored' = IF Populated(id) /\ r.ret.ok
                    THEN [k \in DOMAIN stored \ {Key(id)} |-> stored[k]]
                    ELSE stored
       /\ sm_op' = [name |-> "delete_value", value |-> << >>, id |-> NoId,
                    arg |-> NoId, kind |-> IdKind(hf, id), ok |-> r.ret.ok]
       /\ sm_ops' = sm_ops + 1
       /\ UNCHANGED << hfiter, yielded >>
       /\ UNCHANGED notSmVars

\* sm.update_value(value, id, tid)
SmUpdateValue ==
  /\ hfiter = None
  /\ sm_ops < MaxOps
  /\ \E value \in Values, id \in ValueIdArgs \cup {NoId} :
    \E r \in {sm_update_value(hf, value, id)} :
    LET kept == IF Populated(id) THEN DOMAIN stored \ {Key(id)} ELSE DOMAIN stored
    IN /\ ~r.panic
       /\ Len(r.hf) <= MaxPages
       /\ hf' = r.hf
       /\ stored' = IF ~r.ret.ok THEN stored
                    ELSE IF Populated(r.ret.val)
                    THEN [k \in kept \cup {Key(r.ret.val)} |->
                            IF k = Key(r.ret.val) THEN value ELSE stored[k]]
                    ELSE [k \in kept |-> stored[k]]
       /\ sm_op' = [name |-> "update_value", value |-> value,
                    id |-> IF r.ret.ok THEN r.ret.val ELSE NoId,
                    arg |-> IF IdKind(hf, id) = "live" THEN id ELSE NoId,
                    kind |-> IdKind(hf, id), ok |-> r.ret.ok]
       /\ sm_ops' = sm_ops + 1
       /\ UNCHANGED << hfiter, yielded >>
       /\ UNCHANGED notSmVars

\* sm.get_iterator(cid, tid, perm)
GetIterator ==
  /\ hfiter = None
  /\ hfiter' = Some([it |-> HeapFileIterator_new, from |-> << 0, 0 >>,
                     fresh |-> TRUE, done |-> FALSE])
  /\ yielded' = << >>
  /\ sm_op' = SmIterOp
  /\ UNCHANGED << hf, stored, sm_ops >>
  /\ UNCHANGED notSmVars

\* sm.get_iterator_from(cid, tid, perm, start)
GetIteratorFrom ==
  \E start \in ValueIdArgs :
    /\ hfiter = None
    /\ hfiter' = Some([it |-> HeapFileIterator_new_from(start), from |-> Key(start),
                       fresh |-> FALSE, done |-> FALSE])
    /\ yielded' = << >>
    /\ sm_op' = SmIterOp
    /\ UNCHANGED << hf, stored, sm_ops >>
    /\ UNCHANGED notSmVars

\* iter.next()
IterNext ==
  /\ hfiter # None
  /\ ~hfiter[1].done
  /\ LET r == hfi_next(hf, hfiter[1].it)
     IN /\ hfiter' = Some([hfiter[1] EXCEPT !.it = r.iter, !.done = (r.item = None)])
        /\ yielded' = IF r.item = None THEN yielded ELSE Append(yielded, r.item[1])
  /\ UNCHANGED << hf, stored, sm_op, sm_ops >>
  /\ UNCHANGED notSmVars

\* the iterator goes out of scope
IterDrop ==
  /\ hfiter # None
  /\ hfiter' = None
  /\ yielded' = << >>
  /\ UNCHANGED << hf, stored, sm_op, sm_ops >>
  /\ UNCHANGED notSmVars

SmInitAll ==
  /\ page = PageNew(0)
  /\ PageInit
  /\ SmInit
  /\ cm_dir = << 100 >>
  /\ CmInit
  /\ PairIdle
  /\ ConcIdle
  /\ AggIdle
  /\ JoinIdle

SmNext ==
  SmInsertValue \/ SmDeleteValue \/ GetIterator \/ GetIteratorFrom \/ IterNext \/ IterDrop

SmSpec == SmInitAll /\ [][SmNext]_vars

\* The StorageManager with update_value, and no iterator.
SmUpdNext == sm_ops < MaxUpdOps /\ (SmInsertValue \/ SmDeleteValue \/ SmUpdateValue)

SmUpdSpec == SmInitAll /\ [][SmUpdNext]_vars

(***************************************************************************)
(* Operations on the container map of a StorageManager: containers are     *)
(* created and removed, records inserted, the manager shut down and a new  *)
(* one made on the same directory.  A panic ends the process: only new     *)
(* (a new process) follows it.                                             *)
(***************************************************************************)
ContainerIds == {1, 10}

Running == cm_ops < MaxCmOps /\ cm_op.ret # "panic"

CmStep(r, name, container_id) ==
  /\ cm_map' = r.map
  /\ cm_fs' = r.fs
  /\ cm_op' = [name |-> name, id |-> container_id, ret |-> r.ret,
               absent |-> container_id \notin DOMAIN cm_map]
  /\ cm_ops' = cm_ops + 1
  /\ cm_poisoned' = (cm_poisoned \/ r.ret = "panic")
  /\ UNCHANGED << cm_dir, cm_json >>
  /\ UNCHANGED notCmVars

\* sm.create_container(container_id, ...)
CmCreateContainer ==
  /\ Running
  /\ \E container_id \in ContainerIds :
       CmStep(create_container(cm_map, cm_fs, cm_dir, container_id),
              "create_container", container_id)

\* sm.remove_container(container_id)
CmRemoveContainer ==
  /\ Running
  /\ \E container_id \in ContainerIds :
       CmStep(remove_container(cm_map, cm_fs, cm_dir, container_id),
              "remove_container", container_id)

\* sm.insert_value(container_id, value, tid)
CmInsertValue ==
  /\ Running
  /\ \E container_id \in ContainerIds, value \in SmallValues :
       CmStep(cm_insert_value(cm_map, cm_fs, cm_dir, container_id, value),
              "insert_value", container_id)

\* sm.shutdown()
CmShutdown ==
  /\ Running
  /\ cm_json' = Some(shutdown(cm_map))
  /\ cm_op' = [name |-> "shutdown", id |-> 0, ret |-> "ok", absent |-> FALSE]
  /\ cm_ops' = cm_ops + 1
  /\ UNCHANGED << cm_dir, cm_map, cm_fs, cm_poisoned >>
  /\ UNCHANGED notCmVars

\* the manager is dropped and StorageManager::new(dir) called on its directory
CmNew ==
  /\ cm_ops < MaxCmOps
  /\ cm_map' = StorageManager_new(cm_json)
  /\ cm_op' = CmNoOp
  /\ cm_ops' = cm_ops + 1
  /\ cm_poisoned' = FALSE
  /\ UNCHANGED << cm_dir, cm_fs, cm_json >>
  /\ UNCHANGED notCmVars

CmInitAll ==
  /\ page = PageNew(0)
  /\ PageInit
  /\ SmInit
  /\ cm_dir \in StorageDirs
  /\ CmInit
  /\ PairIdle
  /\ ConcIdle
  /\ AggIdle
  /\ JoinIdle

CmNext ==
  CmCreateContainer \/ CmRemoveContainer \/ CmInsertValue \/ CmShutdown \/ CmNew

CmSpec == CmInitAll /\ [][CmNext]_vars

(***************************************************************************)
(* Operations of several threads on one StorageManager.  A panic ends the  *)
(* thread that called the operation; the manager lives on and the other    *)
(* threads go on calling it.  A thread that panics while it holds the      *)
(* write guard of container_to_hf poisons the lock, and write().unwrap()   *)
(* on a poisoned lock panics.                                              *)
(***************************************************************************)
\* a variant of write_unwrap for a lock that is never poisoned
write_unwrap_never_poisoned(poisoned, map, fs, r) == r

\* self.container_to_hf.write().unwrap(), followed by the rest of the operation,
\* whose result is r
write_unwrap(poisoned, map, fs, r) ==
  IF poisoned THEN CmResult(map, fs, "panic") ELSE r

\* create_container opens the file before it takes the lock
create_container_locked(poisoned, map, fs, dir, container_id) ==
  LET open == HeapFile_new(fs, dir, join(dir, heapfile_name(container_id)))
  IN IF open.ok
     THEN write_unwrap(poisoned, map, open.val, create_container(map, fs, dir, container_id))
     ELSE CmResult(map, fs, "err")

\* the result of get_value as a word: "ok", "err" or "panic"
cm_get_ret(map, fs, dir, container_id, id) ==
  IF container_id \notin DOMAIN map THEN "panic"
  ELSE IF ~HeapFile_new(fs, dir, map[container_id]).ok THEN "panic"
  ELSE IF cm_get_value(map, fs, dir, container_id, id).ok THEN "ok" ELSE "err"

\* sm.create_container(container_id, ...)
PsCreateContainer ==
  /\ cm_ops < MaxCmOps
  /\ \E container_id \in ContainerIds :
       CmStep(create_container_locked(cm_poisoned, cm_map, cm_fs, cm_dir, container_id),
              "create_container", container_id)

\* sm.remove_container(container_id)
PsRemoveContainer ==
  /\ cm_ops < MaxCmOps
  /\ \E container_id \in ContainerIds :
       CmStep(write_unwrap(cm_poisoned, cm_map, cm_fs,
                           remove_container(cm_map, cm_fs, cm_dir, container_id)),
              "remove_container", container_id)

\* sm.insert_value(container_id, value, tid)
PsInsertValue ==
  /\ cm_ops < MaxCmOps
  /\ \E container_id \in ContainerIds, value \in SmallValues :
       CmStep(write_unwrap(cm_poisoned, cm_map, cm_fs,
                           cm_insert_value(cm_map, cm_fs, cm_dir, container_id, value)),
              "insert_value", container_id)

\* sm.get_value(id, tid, perm)
PsGetValue ==
  /\ cm_ops < MaxCmOps
  /\ \E container_id \in ContainerIds, id \in {ValueId(Some(0), Some(0))} :
       CmStep(write_unwrap(cm_poisoned, cm_map, cm_fs,
                CmResult(cm_map, cm_fs,
                         cm_get_ret(cm_map, cm_fs, cm_dir, container_id, id))),
              "get_value", container_id)

PsNext == PsCreateContainer \/ PsRemoveContainer \/ PsInsertValue \/ PsGetValue

PoisonSpec == CmInitAll /\ [][PsNext]_vars

(***************************************************************************)
(* Operations on an Aggregate over a child that yields the tuples of       *)
(* agg_in.  The tuples have two columns: an Int, and a value whose kind is *)
(* that of the column (Int or Decimal).                                    *)
(***************************************************************************)
GroupVals == { FInt(1), FInt(2) }
ColumnVals(kind) ==
  IF kind = "Int" THEN { FInt(1), FInt(2) } ELSE { FDec(1, 2), FDec(3, 2) }
Relations(kind) ==
  UNION { [1..n -> { << g, v >> : g \in GroupVals, v \in ColumnVals(kind) }] :
            n \in 0..MaxTuples }

GroupBys == { << >>, << 1 >> }
AggOps ==
  { << >>, << "Count" >>, << "Sum" >>, << "Min" >>, << "Max" >>, << "Avg" >>,
    << "Count", "Max", "Avg" >> }
AggConfigs ==
  { [groupby_expr |-> g, agg_expr |-> [i \in 1..Len(ops) |-> 2], ops |-> ops] :
      g \in GroupBys, ops \in AggOps }

\* The orders in which a HashMap with the keys S can iterate.
Orders(S) ==
  { o \in [1..Cardinality(S) -> S] : \A i, j \in 1..Cardinality(S) : o[i] = o[j] => i = j }

\* agg.open(): the child is drained into the hashmap
AggOpen ==
  /\ agg_pc \in {"new", "open", "done", "closed"}
  /\ IF agg.open
     THEN UNCHANGED << agg, agg_pc >>
     ELSE \E m \in {merge_all(agg.hashmap, agg_cfg, agg_in)} :
            IF m.panic
            THEN /\ agg' = [agg EXCEPT !.open = TRUE, !.hashmap = m.hashmap,
                                       !.child_open = TRUE]
                 /\ agg_pc' = "panic"
            ELSE /\ \E order \in Orders(DOMAIN m.hashmap) :
                      agg' = [open |-> TRUE, hashmap |-> m.hashmap, order |-> order,
                              current_index |-> Some(0),
                              child_open |-> TRUE, child_pos |-> Len(agg_in)]
                 /\ agg_pc' = "open"
  /\ agg_life' = IF ~agg.open /\ agg_pc = "closed" THEN "reopened" ELSE agg_life
  /\ UNCHANGED << agg_in, agg_cfg, agg_out >>
  /\ UNCHANGED notAggVars

\* agg.next()
AggNext ==
  /\ agg_pc \in {"new", "open", "done", "closed"}
  /\ IF ~agg.open
     THEN agg_pc' = "panic" /\ UNCHANGED << agg, agg_out >>
     ELSE \E r \in {agg_next(agg.hashmap, agg.order, agg.current_index[1])} :
            /\ agg' = [agg EXCEPT !.current_index = Some(r.current_index)]
            /\ agg_out' = IF r.item = None THEN agg_out ELSE Append(agg_out, r.item[1])
            /\ agg_pc' = IF r.panic THEN "panic" ELSE IF r.item = None THEN "done" ELSE "open"
  /\ UNCHANGED << agg_in, agg_cfg, agg_life >>
  /\ UNCHANGED notAggVars

\* agg.rewind()
AggRewind ==
  /\ agg_pc \in {"new", "open", "done", "closed"}
  /\ \E r \in {agg_rewind(agg)} :
       /\ agg' = r.agg
       /\ IF r.panic
          THEN agg_pc' = "panic" /\ UNCHANGED << agg_out, agg_life >>
          ELSE agg_pc' = "open" /\ agg_out' = << >> /\ agg_life' = "rewound"
  /\ UNCHANGED << agg_in, agg_cfg >>
  /\ UNCHANGED notAggVars

\* agg.close()
AggClose ==
  /\ agg_pc \in {"open", "done"}
  /\ agg' = agg_close(agg)
  /\ agg_out' = << >>
  /\ agg_pc' = "closed"
  /\ UNCHANGED << agg_in, agg_cfg, agg_life >>
  /\ UNCHANGED notAggVars

AggInitAll ==
  /\ page = PageNew(0)
  /\ PageInit
  /\ SmInit
  /\ cm_dir = << 100 >>
  /\ CmInit
  /\ PairIdle
  /\ ConcIdle
  /\ JoinIdle
  /\ \E kind \in {"Int", "Decimal"} : agg_in \in Relations(kind)
  /\ agg_cfg \in AggConfigs
  /\ AggInit

AggStep == AggOpen \/ AggNext \/ AggRewind \/ AggClose

AggSpec == AggInitAll /\ [][AggStep]_vars

(***************************************************************************)
(* Operations on a HashEqJoin whose children yield the tuples of           *)
(* hj_in.left and hj_in.right.  A left tuple is a key and a tag that tells *)
(* the tuples of one key apart; a right tuple is a key.                    *)
(***************************************************************************)
LeftTuples == { << FInt(1), FInt(1) >>, << FInt(1), FInt(2) >>, << FInt(2), FInt(1) >> }
RightTuples == { << FInt(1) >>, << FInt(2) >>, << FInt(3) >> }
SeqsUpTo(S, n) == UNION { [1..m -> S] : m \in 0..n }

\* hj.open()
HjOpen ==
  /\ hj_pc \in {"new", "open", "done", "closed"}
  /\ hj' = hj_open(hj, hj_in.left)
  /\ hj_pc' = IF hj.open THEN hj_pc ELSE "open"
  /\ hj_life' = IF ~hj.open /\ hj_pc = "closed" THEN "reopened" ELSE hj_life
  /\ UNCHANGED << hj_in, hj_out >>
  /\ UNCHANGED notJoinVars

\* hj.next()
HjNext ==
  /\ hj_pc \in {"new", "open", "done", "closed"}
  /\ \E r \in {hj_next(hj, hj_in.right)} :
       /\ hj' = r.hj
       /\ hj_out' = IF r.item = None THEN hj_out ELSE Append(hj_out, r.item[1])
       /\ hj_pc' = IF r.panic THEN "panic" ELSE IF r.item = None THEN "done" ELSE "open"
  /\ UNCHANGED << hj_in, hj_life >>
  /\ UNCHANGED notJoinVars

\* hj.rewind()
HjRewind ==
  /\ hj_pc \in {"new", "open", "done", "closed"}
  /\ \E r \in {hj_rewind(hj)} :
       /\ hj' = r.hj
       /\ IF r.panic
          THEN hj_pc' = "panic" /\ UNCHANGED << hj_out, hj_life >>
          ELSE hj_pc' = "open" /\ hj_out' = << >> /\ hj_life' = "rewound"
  /\ UNCHANGED hj_in
  /\ UNCHANGED notJoinVars

\* hj.close()
HjClose ==
  /\ hj_pc \in {"open", "done"}
  /\ hj' = hj_close(hj)
  /\ hj_out' = << >>
  /\ hj_pc' = "closed"
  /\ UNCHANGED << hj_in, hj_life >>
  /\ UNCHANGED notJoinVars

JoinInputs ==
  [left : SeqsUpTo(LeftTuples, MaxTuples), right : SeqsUpTo(RightTuples, MaxTuples)]

HjInitAll ==
  /\ page = PageNew(0)
  /\ PageInit
  /\ SmInit
  /\ cm_dir = << 100 >>
  /\ CmInit
  /\ PairIdle
  /\ ConcIdle
  /\ AggIdle
  /\ hj_in \in JoinInputs
  /\ JoinInit
  /\ NlNone

HjStep == HjOpen \/ HjNext

HjSpec == HjInitAll /\ [][HjStep]_vars

(***************************************************************************)
(* Operations on a NestedLoopJoin over the children of hj_in.              *)
(***************************************************************************)
NlOps == { "Eq", "Neq", "Lt", "Ge" }

\* nl.open()
NlOpen ==
  /\ nl_pc \in {"new", "open", "done", "closed"}
  /\ nl' = nl_open(nl, hj_in.left)
  /\ nl_pc' = IF nl.open THEN nl_pc ELSE "open"
  /\ nl_life' = IF ~nl.open /\ nl_pc = "closed" THEN "reopened" ELSE nl_life
  /\ UNCHANGED << nl_op, nl_out >>
  /\ UNCHANGED notNlVars

\* nl.next()
NlNext ==
  /\ nl_pc \in {"new", "open", "done", "closed"}
  /\ \E r \in {nl_next(nl, hj_in.left, hj_in.right, nl_op)} :
       /\ nl' = r.nl
       /\ nl_out' = IF r.item = None THEN nl_out ELSE Append(nl_out, r.item[1])
       /\ nl_pc' = IF r.panic THEN "panic" ELSE IF r.item = None THEN "done" ELSE "open"
  /\ UNCHANGED << nl_op, nl_life >>
  /\ UNCHANGED notNlVars

\* nl.rewind()
NlRewind ==
  /\ nl_pc \in {"new", "open", "done", "closed"}
  /\ \E r \in {nl_rewind(nl, hj_in.left)} :
       /\ nl' = r.nl
       /\ IF r.panic
          THEN nl_pc' = "panic" /\ UNCHANGED << nl_out, nl_life >>
          ELSE nl_pc' = "open" /\ nl_out' = << >> /\ nl_life' = "rewound"
  /\ UNCHANGED nl_op
  /\ UNCHANGED notNlVars

\* nl.close()
NlClose ==
  /\ nl_pc \in {"open", "done"}
  /\ nl' = nl_close(nl)
  /\ nl_out' = << >>
  /\ nl_pc' = "closed"
  /\ UNCHANGED << nl_op, nl_life >>
  /\ UNCHANGED notNlVars

NlInitAll ==
  /\ page = PageNew(0)
  /\ PageInit
  /\ SmInit
  /\ cm_dir = << 100 >>
  /\ CmInit
  /\ PairIdle
  /\ ConcIdle
  /\ AggIdle
  /\ hj_in \in JoinInputs
  /\ HjNone
  /\ nl_op \in NlOps
  /\ NlInit

NlStep == NlOpen \/ NlNext

NlSpec == NlInitAll /\ [][NlStep]_vars

(***************************************************************************)
(* A HashEqJoin and a NestedLoopJoin with op = Eq over the same children:  *)
(* the HashEqJoin is drained, then the NestedLoopJoin.                     *)
(***************************************************************************)
EqInitAll ==
  /\ page = PageNew(0)
  /\ PageInit
  /\ SmInit
  /\ cm_dir = << 100 >>
  /\ CmInit
  /\ PairIdle
  /\ ConcIdle
  /\ AggIdle
  /\ hj_in \in JoinInputs
  /\ JoinInit
  /\ nl_op = "Eq"
  /\ NlInit

EqStep ==
  \/ hj_pc \in {"new", "open"} /\ (HjOpen \/ HjNext)
  \/ hj_pc = "done" /\ (NlOpen \/ NlNext)

EqSpec == EqInitAll /\ [][EqStep]_vars

(***************************************************************************)
(* The protocol of one operator: an Aggregate, a HashEqJoin or a           *)
(* NestedLoopJoin is constructed, and open, next, rewind and close are     *)
(* called on it in any order.                                              *)
(***************************************************************************)
MaxLifeTuples == 2

LifeRelations(kind) ==
  UNION { [1..n -> { << g, v >> : g \in GroupVals, v \in ColumnVals(kind) }] :
            n \in 0..MaxLifeTuples }
LifeJoinInputs ==
  [left : SeqsUpTo(LeftTuples, MaxLifeTuples), right : SeqsUpTo(RightTuples, MaxLifeTuples)]

OpInitAll ==
  /\ page = PageNew(0)
  /\ PageInit
  /\ SmInit
  /\ cm_dir = << 100 >>
  /\ CmInit
  /\ PairIdle
  /\ ConcIdle
  /\ \/ /\ \E kind \in {"Int", "Decimal"} : agg_in \in LifeRelations(kind)
        /\ agg_cfg \in AggConfigs
        /\ AggInit
        /\ JoinIdle
     \/ /\ AggIdle
        /\ hj_in \in LifeJoinInputs
        /\ JoinInit
        /\ NlNone
     \/ /\ AggIdle
        /\ hj_in \in LifeJoinInputs
        /\ HjNone
        /\ nl_op \in NlOps
        /\ NlInit

OpStep ==
  \/ AggOpen \/ AggNext \/ AggRewind \/ AggClose
  \/ HjOpen \/ HjNext \/ HjRewind \/ HjClose
  \/ NlOpen \/ NlNext \/ NlRewind \/ NlClose

OpSpec == OpInitAll /\ [][OpStep]_vars

(***************************************************************************)
(* A HeapFileIterator whose next() calls are interleaved with delete_value *)
(* calls on the same container.  Every record inserted has bytes of its    *)
(* own, so that the bytes an iterator yields tell which record it is.      *)
(***************************************************************************)
ItLen == 5

\* The bytes of the k-th record.
ItPayload(k) == [i \in 1..ItLen |-> k]

\* sm.insert_value(cid, value, tid), before the iterator is created
ItInsertValue ==
  /\ hfiter = None
  /\ sm_ops < MaxOps
  /\ \E r \in {insert_value(hf, ItPayload(sm_ops + 1))} :
       /\ hf' = r.hf
       /\ stored' = [k \in DOMAIN stored \cup {Key(r.ret)} |->
                       IF k = Key(r.ret) THEN ItPayload(sm_ops + 1) ELSE stored[k]]
       /\ sm_op' = [name |-> "insert_value", value |-> ItPayload(sm_ops + 1), id |-> r.ret,
                    arg |-> NoId, kind |-> "", ok |-> TRUE]
  /\ sm_ops' = sm_ops + 1
  /\ UNCHANGED << hfiter, yielded >>
  /\ UNCHANGED notSmVars

\* sm.delete_value(id, tid) of a stored record, whether an iterator exists or not
ItDeleteValue ==
  /\ sm_ops < MaxOps
  /\ \E key \in DOMAIN stored :
       \E r \in {sm_delete_value(hf, ValueId(Some(key[1]), Some(key[2])))} :
         /\ hf' = r.hf
         /\ stored' = [k \in DOMAIN stored \ {key} |-> stored[k]]
         /\ sm_op' = [name |-> "delete_value", value |-> stored[key], id |-> NoId,
                      arg |-> ValueId(Some(key[1]), Some(key[2])), kind |-> "live",
                      ok |-> r.ret.ok]
  /\ sm_ops' = sm_ops + 1
  /\ UNCHANGED << hfiter, yielded >>
  /\ UNCHANGED notSmVars

ItNext == ItInsertValue \/ ItDeleteValue \/ GetIterator \/ IterNext

ItSpec == SmInitAll /\ [][ItNext]_vars

(***************************************************************************)
(* A drain: after any calls of open, next, rewind and close, the caller    *)
(* starts a loop that calls next() until it returns None, and calls        *)
(* nothing else.  The *_life variable of the operator records that the     *)
(* loop has started.                                                       *)
(***************************************************************************)
Draining == agg_life = "draining" \/ hj_life = "draining" \/ nl_life = "draining"

\* while let Some(t) = op.next()? { ... }: the loop is entered on an open operator
StartDrain ==
  /\ ~Draining
  /\ \/ /\ agg_pc = "open"
        /\ agg_life' = "draining"
        /\ UNCHANGED << agg_in, agg_cfg, agg, agg_out, agg_pc >>
        /\ UNCHANGED notAggVars
     \/ /\ hj_pc = "open"
        /\ hj_life' = "draining"
        /\ UNCHANGED << hj_in, hj, hj_out, hj_pc >>
        /\ UNCHANGED notJoinVars
     \/ /\ nl_pc = "open"
        /\ nl_life' = "draining"
        /\ UNCHANGED << nl_op, nl, nl_out, nl_pc >>
        /\ UNCHANGED notNlVars

\* one iteration of the loop
DrainNext == Draining /\ (AggNext \/ HjNext \/ NlNext)

DrainStep ==
  \/ ~Draining /\ OpStep
  \/ StartDrain
  \/ DrainNext

\* The loop goes on as long as next() can be called and returns a tuple.
DrainSpec == OpInitAll /\ [][DrainStep]_vars /\ WF_vars(DrainNext)

(***************************************************************************)
(* Two Pages, each with its own history of add_value and delete_value.     *)
(***************************************************************************)
MaxPairOps == 3

PairPayloads == { << 1 >>, << 2, 2 >> }

\* pair[w].add_value(bytes)
PairAddValue ==
  \E w \in DOMAIN pair :
    /\ pair_ops[w] < MaxPairOps
    /\ \E bytes \in PairPayloads :
         pair' = [pair EXCEPT ![w] = add_value(pair[w], bytes).data]
    /\ pair_ops' = [pair_ops EXCEPT ![w] = pair_ops[w] + 1]
    /\ UNCHANGED notPairVars

\* pair[w].delete_value(slot_id)
PairDeleteValue ==
  \E w \in DOMAIN pair :
    /\ pair_ops[w] < MaxPairOps
    /\ \E slot_id \in 0..MaxPairOps :
         pair' = [pair EXCEPT ![w] = delete_value(pair[w], slot_id).data]
    /\ pair_ops' = [pair_ops EXCEPT ![w] = pair_ops[w] + 1]
    /\ UNCHANGED notPairVars

\* Page::new(0) and Page::new(page_id)
PairInitAll ==
  /\ page = PageNew(0)
  /\ PageInit
  /\ SmInit
  /\ cm_dir = << 100 >>
  /\ CmInit
  /\ AggIdle
  /\ JoinIdle
  /\ ConcIdle
  /\ \E page_id \in {0, 1} : pair = [w \in {"a", "b"} |-> IF w = "a" THEN PageNew(0) ELSE PageNew(page_id)]
  /\ pair_ops = [w \in {"a", "b"} |-> 0]

PairNext == PairAddValue \/ PairDeleteValue

PairSpec == PairInitAll /\ [][PairNext]_vars

(***************************************************************************)
(* Threads that call insert_value on one container of one StorageManager.  *)
(* A thread takes the write lock of container_to_hf, reads the pages and   *)
(* adds the value to a page in memory, writes that page to the file, and   *)
(* returns, which releases the lock.                                       *)
(***************************************************************************)
NumThreads == 2

Threads == 1..NumThreads

\* let container_to_hf = self.container_to_hf.write().unwrap()
ThLock(t) ==
  /\ conc_th[t].pc = "start"
  /\ conc_lock = 0
  /\ conc_lock' = t
  /\ conc_th' = [conc_th EXCEPT ![t].pc = "locked"]
  /\ UNCHANGED conc_hf
  /\ UNCHANGED notConcVars

\* the pages are read and the value is added to the first that accepts it, or to
\* a new page
ThScan(t) ==
  /\ conc_th[t].pc = "locked"
  /\ \E r \in {insert_value(conc_hf, conc_th[t].value)} :
       conc_th' = [conc_th EXCEPT ![t].pc = "scanned",
                                  ![t].page = r.hf[r.ret.page_id[1] + 1],
                                  ![t].ret = r.ret]
  /\ UNCHANGED << conc_hf, conc_lock >>
  /\ UNCHANGED notConcVars

\* heapfile.write_page_to_file
ThWrite(t) ==
  /\ conc_th[t].pc = "scanned"
  /\ conc_hf' = write_page_to_file(conc_hf, conc_th[t].page)
  /\ conc_th' = [conc_th EXCEPT ![t].pc = "written"]
  /\ UNCHANGED conc_lock
  /\ UNCHANGED notConcVars

\* the ValueId is returned and the lock guard is dropped
ThReturn(t) ==
  /\ conc_th[t].pc = "written"
  /\ conc_lock' = 0
  /\ conc_th' = [conc_th EXCEPT ![t].pc = "done"]
  /\ UNCHANGED conc_hf
  /\ UNCHANGED notConcVars

ConcInitAll ==
  /\ page = PageNew(0)
  /\ PageInit
  /\ SmInit
  /\ cm_dir = << 100 >>
  /\ CmInit
  /\ AggIdle
  /\ JoinIdle
  /\ PairIdle
  /\ conc_hf = << >>
  /\ conc_lock = 0
  /\ conc_th \in [Threads -> { [pc |-> "start", value |-> v, page |-> << >>, ret |-> NoId] :
                                v \in Values }]

ConcNext == \E t \in Threads : ThLock(t) \/ ThScan(t) \/ ThWrite(t) \/ ThReturn(t)

ConcSpec == ConcInitAll /\ [][ConcNext]_vars

(***************************************************************************)
(* The lock discipline of the StorageManager.  The body of an operation is *)
(* the sequence of what it does with the write lock of container_to_hf:    *)
(* "lock" (write().unwrap()), "work" (what it does under the guard),       *)
(* "unlock" (the guard is dropped at the return), or the name of an        *)
(* operation it calls.  The lock is not reentrant: a thread that asks for  *)
(* it while it holds it waits for ever.                                    *)
(***************************************************************************)
MaxBatch == 2

LockWords == {"lock", "work", "unlock"}

LockOps ==
  {"get_page", "get_page_debug", "insert_value", "insert_values", "delete_value",
   "update_value", "create_container", "create_table", "remove_container",
   "get_iterator", "get_value"}

\* a variant of OpBody in which update_value holds the lock around its two calls
OpBody_nested(op) ==
  IF op = "update_value" THEN << "lock", "delete_value", "insert_value", "unlock" >>
  ELSE IF op = "insert_values" THEN [i \in 1..MaxBatch |-> "insert_value"]
  ELSE IF op = "get_page_debug" THEN << "get_page" >>
  ELSE IF op = "create_table" THEN << "create_container" >>
  ELSE << "lock", "work", "unlock" >>

OpBody(op) ==
  IF op = "update_value" THEN << "delete_value", "insert_value" >>
  ELSE IF op = "insert_values" THEN [i \in 1..MaxBatch |-> "insert_value"]
  ELSE IF op = "get_page_debug" THEN << "get_page" >>
  ELSE IF op = "create_table" THEN << "create_container" >>
  ELSE << "lock", "work", "unlock" >>

\* The steps a call of op takes, the calls it makes expanded in place.
RECURSIVE Steps(_)
RECURSIVE StepsOfBody(_)
StepsOfBody(body) ==
  IF body = << >> THEN << >>
  ELSE (IF Head(body) \in LockWords THEN << Head(body) >> ELSE Steps(Head(body)))
       \o StepsOfBody(Tail(body))
Steps(op) == StepsOfBody(OpBody(op))

\* thread t calls an operation on an existing container
LkInvoke(t) ==
  /\ conc_th[t].pc = "idle"
  /\ \E op \in LockOps :
       conc_th' = [conc_th EXCEPT ![t] = [pc |-> "run", op |-> op, code |-> Steps(op)]]
  /\ UNCHANGED << conc_hf, conc_lock >>
  /\ UNCHANGED notConcVars

\* self.container_to_hf.write().unwrap(): the thread waits until the lock is free
LkAcquire(t) ==
  /\ conc_th[t].pc = "run"
  /\ conc_th[t].code # << >>
  /\ Head(conc_th[t].code) = "lock"
  /\ conc_lock = 0
  /\ conc_lock' = t
  /\ conc_th' = [conc_th EXCEPT ![t].code = Tail(conc_th[t].code)]
  /\ UNCHANGED conc_hf
  /\ UNCHANGED notConcVars

\* the operation reads and writes under the guard
LkWork(t) ==
  /\ conc_th[t].pc = "run"
  /\ conc_th[t].code # << >>
  /\ Head(conc_th[t].code) = "work"
  /\ conc_th' = [conc_th EXCEPT ![t].code = Tail(conc_th[t].code)]
  /\ UNCHANGED << conc_hf, conc_lock >>
  /\ UNCHANGED notConcVars

\* the function that took the lock returns and its guard is dropped
LkRelease(t) ==
  /\ conc_th[t].pc = "run"
  /\ conc_th[t].code # << >>
  /\ Head(conc_th[t].code) = "unlock"
  /\ conc_lock' = 0
  /\ conc_th' = [conc_th EXCEPT ![t].code = Tail(conc_th[t].code)]
  /\ UNCHANGED conc_hf
  /\ UNCHANGED notConcVars

\* the operation the thread called returns
LkReturn(t) ==
  /\ conc_th[t].pc = "run"
  /\ conc_th[t].code = << >>
  /\ conc_th' = [conc_th EXCEPT ![t].pc = "done"]
  /\ UNCHANGED << conc_hf, conc_lock >>
  /\ UNCHANGED notConcVars

LkRun(t) == LkAcquire(t) \/ LkWork(t) \/ LkRelease(t) \/ LkReturn(t)

LockInitAll ==
  /\ page = PageNew(0)
  /\ PageInit
  /\ SmInit
  /\ cm_dir = << 100 >>
  /\ CmInit
  /\ AggIdle
  /\ JoinIdle
  /\ PairIdle
  /\ conc_hf = << >>
  /\ conc_lock = 0
  /\ conc_th = [t \in Threads |-> [pc |-> "idle", op |-> "", code |-> << >>]]

LockNext == \E t \in Threads : LkInvoke(t) \/ LkRun(t)

\* Every thread that can take a step of its operation eventually takes one.
LockSpec == LockInitAll /\ [][LockNext]_vars /\ \A t \in Threads : WF_vars(LkRun(t))

(***************************************************************************)
(* Properties of a Page (specification Spec).                              *)
(***************************************************************************)
\* The ids of the live slots: returned by an add_value and not deleted since.
LiveSlots == DOMAIN added

\* The byte locations of the directory entries of a page.
DirLocs(d) ==
  { META_HEADER_SIZE + SLOT_META_SIZE * k : k \in 0..(get_total_slot_headers(d) - 1) }

\* The directory entries with a nonzero offset, and the payload window of one.
LiveLocs(d) == { loc \in DirLocs(d) : get_slot_offset(d, loc) # 0 }
Window(d, loc) == (get_slot_offset(d, loc) - get_slot_size(d, loc))..(get_slot_offset(d, loc) - 1)

\* The smallest non-negative integer that is not in S.
SmallestMissing(S) == CHOOSE n \in 0..Cardinality(S) : n \notin S /\ \A m \in 0..(n - 1) : m \in S

RECURSIVE SumOfLengths(_, _)
SumOfLengths(f, S) ==
  IF S = {} THEN 0
  ELSE LET x == CHOOSE y \in S : TRUE IN Len(f[x]) + SumOfLengths(f, S \ {x})

SuccessfulAdd == last_op.name = "add_value" /\ last_op.ret # None
RejectedAdd == last_op.name = "add_value" /\ last_op.ret = None
SuccessfulDelete == last_op.name = "delete_value" /\ last_op.ret # None

\* C1: get_value(s) of every live slot s returns exactly the bytes passed to the
\* add_value that most recently returned s, whatever was added or deleted since
\* (compaction included): the record keeps its slot id and its bytes.
C1_LiveValueIsLastAdded ==
  \A s \in LiveSlots : get_value(page, s) = Some(added[s])

\* A delete has just compacted the page: a record with a nonempty payload that is
\* not the first directory entry now ends at PAGE_SIZE.
C1_Witness ==
  /\ SuccessfulDelete
  /\ \E s \in LiveSlots :
       /\ Len(added[s]) > 0
       /\ get_slot_meta_loc(page, s)[1] > META_HEADER_SIZE
       /\ get_slot_offset(page, get_slot_meta_loc(page, s)[1]) = PAGE_SIZE
  /\ Cardinality(LiveSlots) >= 2

\* C2: every successful add_value returns the smallest non-negative integer that is
\* not the id of a live slot at the time of the call; so right after delete_value(s)
\* a successful add returns s if and only if s is then the smallest missing id.
C2_SmallestMissingId ==
  [][ (last_op'.name = "add_value" /\ last_op'.ret # None) =>
        /\ last_op'.ret[1] = SmallestMissing(LiveSlots)
        /\ SuccessfulDelete =>
             ((last_op'.ret[1] = last_op.slot) <=> (last_op.slot = SmallestMissing(LiveSlots)))
    ]_vars

\* An add has reused the id of a deleted slot while a larger id is live.
C2_Witness ==
  /\ SuccessfulAdd
  /\ \E s \in LiveSlots : s > last_op.ret[1]
  /\ get_total_slot_headers(page) > get_num_slots(page)

\* C7: free space = PAGE_SIZE - header size - the lengths of the live payloads, the
\* header size being 8 + 6 * total_slot_headers; a successful add of n bytes lowers
\* the free space by n + 6 and a successful delete of an n-byte record raises it by n.
C7_FreeSpace ==
  /\ [](/\ get_header_size(page) = 8 + 6 * get_total_slot_headers(page)
        /\ get_free_space(page) =
             PAGE_SIZE - get_header_size(page) - SumOfLengths(added, LiveSlots))
  /\ [][ /\ (last_op'.name = "add_value" /\ last_op'.ret # None) =>
              get_free_space(page') = get_free_space(page) - (Len(last_op'.bytes) + 6)
         /\ (last_op'.name = "delete_value" /\ last_op'.ret # None) =>
              get_free_space(page') = get_free_space(page) + Len(added[last_op'.slot])
       ]_vars

\* A record with a nonempty payload was deleted from a page that still holds some.
C7_Witness ==
  /\ SuccessfulDelete
  /\ SumOfLengths(added, LiveSlots) > 0
  /\ get_free_space(page) > 0
  /\ get_total_slot_headers(page) >= 3

\* C8: the payload windows of the live directory entries lie in
\* [first_free_offset, PAGE_SIZE), are pairwise disjoint and cover that range with no
\* hole; they never reach into the header and directory; first_free_offset is the
\* lowest byte of a live payload, PAGE_SIZE when there is none.
C8_PayloadsContiguous ==
  LET first == get_first_offset(page)
      live == LiveLocs(page)
  IN /\ get_header_size(page) <= first
     /\ first <= PAGE_SIZE
     /\ \A loc \in live : Window(page, loc) \subseteq first..(PAGE_SIZE - 1)
     /\ \A l1, l2 \in live : l1 # l2 => Window(page, l1) \cap Window(page, l2) = {}
     /\ \A b \in first..(PAGE_SIZE - 1) : \E loc \in live : b \in Window(page, loc)
     /\ \A loc \in live : first <= get_slot_offset(page, loc) - get_slot_size(page, loc)
     /\ live = {} => first = PAGE_SIZE
     /\ live # {} =>
          \E loc \in live : first = get_slot_offset(page, loc) - get_slot_size(page, loc)

\* A delete left two records with nonempty payloads, one of them moved by compact.
C8_Witness ==
  /\ SuccessfulDelete
  /\ Cardinality({ loc \in LiveLocs(page) : get_slot_size(page, loc) > 0 }) >= 2
  /\ \E loc \in LiveLocs(page) :
       /\ get_slot_offset(page, loc) = PAGE_SIZE
       /\ loc > META_HEADER_SIZE

\* C9: add_value returns None exactly when get_free_space() < len(bytes) + 6, and a
\* rejected add leaves the page unchanged (free space, live slots, payloads, next id).
C9_AddRejectedWhenFull ==
  [][ last_op'.name = "add_value" =>
        /\ (last_op'.ret = None) <=> (get_free_space(page) < Len(last_op'.bytes) + 6)
        /\ last_op'.ret = None => (page' = page /\ added' = added)
    ]_vars

\* An add was rejected by a page that holds live records and has free space left.
C9_Witness ==
  /\ RejectedAdd
  /\ LiveSlots # {}
  /\ get_free_space(page) > 0

\* C10: for every slot id that is not live (never assigned, deleted, or beyond the
\* directory) get_value and delete_value return None and delete_value leaves the
\* page as it is; so a second delete_value(s) returns None.
C10_MissingSlotIsNone ==
  /\ \A s \in SlotArgs \ LiveSlots :
       /\ get_value(page, s) = None
       /\ delete_value(page, s) = [data |-> page, ret |-> None]
  /\ (last_op.name = "get_value" /\ last_op.slot \notin LiveSlots) => last_op.ret = None
  /\ SuccessfulDelete => delete_value(page, last_op.slot).ret = None

\* delete_value was called for slot 0, deleted before, on a page with live records.
C10_Witness ==
  /\ last_op.name = "delete_value"
  /\ last_op.ret = None
  /\ last_op.slot = 0
  /\ get_total_slot_headers(page) > 0
  /\ LiveSlots # {}

\* The items a page iterator returns until it returns None, in order.
RECURSIVE page_iter_collect(_)
page_iter_collect(it) ==
  LET r == page_iter_next(it)
  IN IF r.item = None THEN << >> ELSE << r.item[1] >> \o page_iter_collect(r.iter)

\* The records (bytes, slot id) of the live slots in S, in ascending slot id.
RECURSIVE LiveRecords(_)
LiveRecords(S) ==
  IF S = {} THEN << >>
  ELSE LET s == CHOOSE x \in S : \A y \in S : x <= y
       IN << << added[s], s >> >> \o LiveRecords(S \ {s})

\* C11: after any adds and deletes, iterating the page yields exactly its live
\* records as (bytes, slot id), each once, in strictly ascending slot id, the
\* deleted slots skipped; an iterator started at slot k yields exactly the live
\* records with slot id >= k.
C11_IterYieldsLiveRecords ==
  /\ page_iter_collect(into_iter(page)) = LiveRecords(LiveSlots)
  /\ \A k \in SlotArgs :
       page_iter_collect(new_iter(page, k)) = LiveRecords({ s \in LiveSlots : s >= k })

\* Two live records with a deleted slot id between them, so the iteration has a
\* slot to skip and an iterator started in the middle has a record to leave out.
C11_Witness ==
  /\ \E s, t, u \in SlotArgs :
       s < t /\ t < u /\ s \in LiveSlots /\ t \notin LiveSlots /\ u \in LiveSlots
  /\ Len(page_iter_collect(into_iter(page))) >= 2

(***************************************************************************)
(* Properties of the StorageManager and of the HeapFileIterator            *)
(* (specification SmSpec).                                                 *)
(***************************************************************************)
\* The keys (page id, slot id) of the stored records at or after (p, s).
KeysFrom(p, s) == { k \in DOMAIN stored : k[1] > p \/ (k[1] = p /\ k[2] >= s) }

FirstKey(S) == CHOOSE k \in S : \A j \in S : k[1] < j[1] \/ (k[1] = j[1] /\ k[2] <= j[2])

\* The bytes of the stored records with a key in S, in ascending (page, slot) order.
RECURSIVE InOrder(_)
InOrder(S) ==
  IF S = {} THEN << >>
  ELSE << stored[FirstKey(S)] >> \o InOrder(S \ {FirstKey(S)})

\* The bytes the iterator has yielded so far.
YieldedBytes == [i \in 1..Len(yielded) |-> yielded[i][1]]

\* C3: insert_value of a value of at most PAGE_SIZE bytes returns a ValueId with
\* page_id and slot_id populated, under which get_value returns the value.
C3_InsertReturnsIdOfRecord ==
  (sm_op.name = "insert_value" /\ Len(sm_op.value) <= PAGE_SIZE) =>
    /\ Populated(sm_op.id)
    /\ sm_get_value(hf, sm_op.id) = Ok(sm_op.value)

\* C4: the iterator of get_iterator yields the bytes of every stored record exactly
\* once and nothing else, in ascending page id and, within a page, ascending slot
\* id, and then ends.
C4_IteratorYieldsEveryRecord ==
  (hfiter # None /\ hfiter[1].fresh) =>
    LET expected == InOrder(KeysFrom(0, 0))
    IN /\ Len(yielded) <= Len(expected)
       /\ YieldedBytes = SubSeq(expected, 1, Len(yielded))
       /\ hfiter[1].done => YieldedBytes = expected

\* A scan has ended over two pages with records, page 0 having lost its slot 0.
C4_Witness ==
  /\ hfiter # None
  /\ hfiter[1].fresh
  /\ hfiter[1].done
  /\ << 0, 0 >> \notin DOMAIN stored
  /\ << 0, 1 >> \in DOMAIN stored
  /\ \E k \in DOMAIN stored : k[1] = 1
  /\ Len(yielded) >= 3

\* C5: the ValueId of every pair a heap-file iterator yields names the record the
\* pair carries: get_value of it returns the bytes of the pair.
C5_YieldedIdNamesRecord ==
  \A i \in 1..Len(yielded) : sm_get_value(hf, yielded[i][2]) = Ok(yielded[i][1])

\* C6: the iterator of get_iterator_from(start) yields exactly the stored records at
\* or after start, each once, in ascending (page, slot) order.
C6_IteratorFromYieldsRest ==
  (hfiter # None /\ ~hfiter[1].fresh /\ hfiter[1].done) =>
    YieldedBytes = InOrder(KeysFrom(hfiter[1].from[1], hfiter[1].from[2]))

(***************************************************************************)
(* Properties of update_value (specification SmUpdSpec) and of             *)
(* insert_value and delete_value.                                          *)
(***************************************************************************)
\* A value fits in a page when add_value on an empty page accepts it.
FitsInPage(value) == add_value(PageNew(0), value).ret # None

\* The ValueIds under which get_value finds a record in the file.
LiveIds(f) == { id \in ValueIdArgs : sm_get_value(f, id).ok }

\* C12: update_value(bytes, id) of a stored record, with bytes that fit in a page,
\* returns Ok of a ValueId under which get_value returns bytes; the container
\* holds as many records as before; every other record is still found under its
\* ValueId with its bytes.
C12_UpdateReplacesRecord ==
  [][ (sm_op'.name = "update_value" /\ sm_op'.kind = "live" /\ FitsInPage(sm_op'.value)) =>
        /\ sm_op'.ok
        /\ Populated(sm_op'.id)
        /\ sm_get_value(hf', sm_op'.id) = Ok(sm_op'.value)
        /\ Cardinality(LiveIds(hf')) = Cardinality(LiveIds(hf))
        /\ \A id \in LiveIds(hf) \ {sm_op'.arg} : sm_get_value(hf', id) = sm_get_value(hf, id)
    ]_vars

\* A stored record has just been updated while two other records were stored.
C12_Witness ==
  /\ sm_op.name = "update_value"
  /\ sm_op.kind = "live"
  /\ FitsInPage(sm_op.value)
  /\ sm_op.ok
  /\ Cardinality(DOMAIN stored) >= 3
  /\ Cardinality(LiveIds(hf)) >= 3

\* The ids of the pages of the file whose add_value accepts the value.
Accepting(f, value) ==
  { p \in 0..(num_pages(f) - 1) : add_value(f[p + 1], value).ret # None }

\* The page id a page of the file carries in its header.
HeaderPageId(f, p) == from_le_bytes(f[p + 1], PAGEID_LOC)

\* C13: insert_value stores the record in the lowest-numbered page of the file
\* whose add_value accepts it and leaves the other pages and the number of pages
\* as they were; when no page of the file accepts the value it appends exactly one
\* page, whose page id is the previous num_pages, and returns that page id; the
\* page ids of the file stay 0, 1, 2, ... without a gap.
C13_InsertPicksFirstAcceptingPage ==
  [][ sm_op'.name = "insert_value" =>
        LET value == sm_op'.value
            id == sm_op'.id
            acc == Accepting(hf, value)
            low == CHOOSE p \in acc : \A q \in acc : p <= q
        IN /\ acc # {} =>
                /\ id = ValueId(Some(low), add_value(hf[low + 1], value).ret)
                /\ sm_get_value(hf', id) = Ok(value)
                /\ num_pages(hf') = num_pages(hf)
                /\ \A p \in 0..(num_pages(hf) - 1) : p # low => hf'[p + 1] = hf[p + 1]
           /\ acc = {} =>
                /\ num_pages(hf') = num_pages(hf) + 1
                /\ id.page_id = Some(num_pages(hf))
                /\ HeaderPageId(hf', num_pages(hf)) = num_pages(hf)
                /\ \A p \in 0..(num_pages(hf) - 1) : hf'[p + 1] = hf[p + 1]
                /\ FitsInPage(value) => sm_get_value(hf', id) = Ok(value)
           /\ \A p \in 0..(num_pages(hf') - 1) : HeaderPageId(hf', p) = p
    ]_vars

\* Page 0 is full, an insert has appended page 1 for a record, and the insert just
\* made has passed over page 0 and stored its record in page 1.
C13_Witness ==
  /\ sm_op.name = "insert_value"
  /\ sm_op.id = ValueId(Some(1), Some(1))
  /\ num_pages(hf) = 2
  /\ Accepting(hf, sm_op.value) = {1}
  /\ sm_get_value(hf, sm_op.id) = Ok(sm_op.value)

\* C14: delete_value of a ValueId that names a page past the end of the file or a
\* slot without a value, or whose page_id or slot_id is unset, returns Ok and
\* leaves every stored record as it was.
C14_DeleteOfMissingIsOk ==
  (sm_op.name = "delete_value" /\ sm_op.kind \in {"no_page", "not_live", "unset"}) =>
    /\ sm_op.ok
    /\ \A k \in DOMAIN stored :
         sm_get_value(hf, ValueId(Some(k[1]), Some(k[2]))) = Ok(stored[k])

(***************************************************************************)
(* Properties of the container map (specification CmSpec).                 *)
(***************************************************************************)
\* C15: remove_container of an id that is not in the container map returns Ok and
\* leaves the map and the files as they were.
C15_RemoveAbsentIsOk ==
  [][ (cm_op'.name = "remove_container" /\ cm_op'.absent) =>
        /\ cm_op'.ret = "ok"
        /\ cm_map' = cm_map
        /\ cm_fs' = cm_fs
    ]_vars

\* What get_value returns for every ValueId of every container of the map.
Records(map, fs) ==
  [c \in DOMAIN map |-> [id \in ValueIdArgs |-> cm_get_value(map, fs, cm_dir, c, id)]]

\* C16: new(dir) called after shutdown() gives a manager whose container map is
\* the map the manager had at shutdown, and get_value returns what it returned
\* before for every record; a shutdown that follows a shutdown leaves
\* container_to_hf.json as it was.
C16_ShutdownNewRoundTrip ==
  [][ /\ (cm_op.name = "shutdown" /\ cm_op'.name = "new") =>
           /\ cm_map' = cm_map
           /\ Records(cm_map', cm_fs') = Records(cm_map, cm_fs)
      /\ (cm_op.name = "shutdown" /\ cm_op'.name = "shutdown") => cm_json' = cm_json
    ]_vars

(***************************************************************************)
(* Properties of the Aggregate (specification AggSpec).                    *)
(***************************************************************************)
\* The group key of a tuple, the group keys of a relation, and the positions of
\* the tuples of a group.
GroupKey(t) == [i \in 1..Len(agg_cfg.groupby_expr) |-> eval(agg_cfg.groupby_expr[i], t)]
GroupKeys(rel) == { GroupKey(rel[i]) : i \in 1..Len(rel) }
Members(rel, k) == { i \in 1..Len(rel) : GroupKey(rel[i]) = k }

\* The sum of the values of aggregate expression idx over the tuples at the
\* positions I, as a fraction << numerator, denominator >>.
RECURSIVE RatSum(_, _, _)
RatSum(rel, idx, I) ==
  IF I = {} THEN << 0, 1 >>
  ELSE LET i == CHOOSE x \in I : TRUE
           v == eval(agg_cfg.agg_expr[idx], rel[i])
           r == RatSum(rel, idx, I \ {i})
       IN << v.num * r[2] + r[1] * v.den, v.den * r[2] >>

\* Field f has the value of the fraction r.
IsRat(f, r) == f.num * r[2] = r[1] * f.den

\* The values of aggregate expression idx over the tuples at the positions I.
ExprVals(rel, idx, I) == { eval(agg_cfg.agg_expr[idx], rel[i]) : i \in I }

\* Field f is what aggregate idx is over the tuples at the positions I (for Avg
\* nothing is asked here).
IsAggregate(f, rel, idx, I) ==
  LET op == agg_cfg.ops[idx]
      vals == ExprVals(rel, idx, I)
  IN CASE op = "Count" -> f = FInt(Cardinality(I))
       [] op = "Sum" -> /\ \A v \in vals : f.kind = v.kind
                        /\ IsRat(f, RatSum(rel, idx, I))
       [] op = "Min" -> f \in vals /\ \A v \in vals : f.num * v.den <= v.num * f.den
       [] op = "Max" -> f \in vals /\ \A v \in vals : f.num * v.den >= v.num * f.den
       [] op = "Avg" -> TRUE

\* Tuple t is the result for group k: the key, then one field per aggregate.
IsGroupResult(t, k) ==
  /\ Len(t) = Len(agg_cfg.groupby_expr) + Len(agg_cfg.ops)
  /\ SubSeq(t, 1, Len(agg_cfg.groupby_expr)) = k
  /\ \A idx \in 1..Len(agg_cfg.ops) :
       IsAggregate(t[Len(agg_cfg.groupby_expr) + idx], agg_in, idx, Members(agg_in, k))

AggDone == agg_pc = "done"

\* C17: once next has returned None, the tuples returned are one per distinct
\* group key of the input, each the key followed by one field per aggregate, with
\* Count the number of tuples of the group, Sum the sum of the expression values
\* and Min/Max the least/greatest of them; so too without any aggregate.
C17_OneTuplePerGroup ==
  AggDone =>
    /\ Len(agg_out) = Cardinality(GroupKeys(agg_in))
    /\ \A k \in GroupKeys(agg_in) : \E i \in 1..Len(agg_out) : IsGroupResult(agg_out[i], k)

\* Three tuples in two groups have been aggregated with Sum and the output drained.
C17_Witness ==
  /\ AggDone
  /\ Len(agg_in) = 3
  /\ agg_cfg.groupby_expr = << 1 >>
  /\ agg_cfg.ops = << "Sum" >>
  /\ Len(agg_out) = 2

\* C18: for an Avg aggregate over Int or Decimal values, after each merge the
\* state of every group is the pair (number of tuples merged into the group, sum
\* of their values); nothing panics; and the field emitted is a Decimal equal to
\* sum / count.
C18_AvgIsSumOverCount ==
  \A idx \in 1..Len(agg_cfg.ops) :
    agg_cfg.ops[idx] = "Avg" =>
      /\ \A n \in 0..Len(agg_in) :
           LET rel == SubSeq(agg_in, 1, n)
               m == merge_all(<< >>, agg_cfg, rel)
           IN /\ ~m.panic
              /\ \A k \in DOMAIN m.hashmap :
                   LET st == m.hashmap[k][idx]
                   IN /\ Len(st) = 2
                      /\ st[1] = FInt(Cardinality(Members(rel, k)))
                      /\ IsRat(st[2], RatSum(rel, idx, Members(rel, k)))
      /\ ~(agg.open /\ agg_pc = "panic")
      /\ AggDone =>
           \A k \in GroupKeys(agg_in) : \E i \in 1..Len(agg_out) :
             LET f == agg_out[i][Len(agg_cfg.groupby_expr) + idx]
                 r == RatSum(agg_in, idx, Members(agg_in, k))
             IN /\ SubSeq(agg_out[i], 1, Len(agg_cfg.groupby_expr)) = k
                /\ f.kind = "Decimal"
                /\ IsRat(f, << r[1], r[2] * Cardinality(Members(agg_in, k)) >>)

\* C19: over an empty child, the Aggregate returns exactly one tuple when it has no
\* group-by expression and none when it has one.
C19_EmptyChild ==
  (agg_in = << >> /\ AggDone) =>
    Len(agg_out) = IF agg_cfg.groupby_expr = << >> THEN 1 ELSE 0

(***************************************************************************)
(* Properties of the HashEqJoin (specification HjSpec).                    *)
(***************************************************************************)
\* The left tuples that match a right tuple, in the order of the left child, each
\* merged with it and paired with the position n of the right tuple.
RECURSIVE MatchesOf(_, _, _)
MatchesOf(left, right_tuple, n) ==
  IF left = << >> THEN << >>
  ELSE (IF eval(left_expr, Head(left)) = eval(right_expr, right_tuple)
        THEN << << n, merge(Head(left), right_tuple) >> >>
        ELSE << >>) \o MatchesOf(Tail(left), right_tuple, n)

\* The matches of the right tuples from position n on, in the order of the right
\* child.
RECURSIVE JoinFrom(_, _, _)
JoinFrom(left, right, n) ==
  IF n > Len(right) THEN << >>
  ELSE MatchesOf(left, right[n], n) \o JoinFrom(left, right, n + 1)

ExpectedJoin == JoinFrom(hj_in.left, hj_in.right, 1)

\* C20: the tuples next returns are, in order, the matches of the first right
\* tuple in left insertion order, then those of the second right tuple, and so
\* on: every pair with equal keys once, left merged with right; the right child
\* has been pulled exactly up to the right tuple of the last output while outputs
\* remain; and next returns None only when the right child is exhausted and all
\* matches have been returned.
C20_HashJoinOutput ==
  hj.open =>
    /\ Len(hj_out) <= Len(ExpectedJoin)
    /\ \A i \in 1..Len(hj_out) : hj_out[i] = ExpectedJoin[i][2]
    /\ (hj_pc = "open" /\ hj_out # << >>) => hj.right_pos = ExpectedJoin[Len(hj_out)][1]
    /\ hj_pc = "done" =>
         /\ Len(hj_out) = Len(ExpectedJoin)
         /\ hj.right_pos = Len(hj_in.right)
         /\ hj.current_tuple = None
    /\ hj_pc # "panic"

\* A right tuple has matched a bucket of two left tuples, another right tuple a
\* bucket of one, a third none, and the output has been drained.
C20_Witness ==
  /\ hj_pc = "done"
  /\ Len(hj_in.left) = 3
  /\ Len(hj_in.right) = 3
  /\ Len(hj_out) = 3
  /\ \E i \in 1..3 : hj_in.right[i] = << FInt(3) >>
  /\ hj_out[1][3] = hj_out[2][3]
  /\ hj_out[1] # hj_out[2]

(***************************************************************************)
(* Properties of the NestedLoopJoin (specification NlSpec).                *)
(***************************************************************************)
\* The right tuples that satisfy op with a left tuple, in the order of the right
\* child, each merged with it and paired with the position n of the left tuple.
RECURSIVE NlMatchesOf(_, _, _, _)
NlMatchesOf(left_tuple, right, op, n) ==
  IF right = << >> THEN << >>
  ELSE (IF compare_fields(op, eval(left_expr, left_tuple), eval(right_expr, Head(right)))
        THEN << << n, merge(left_tuple, Head(right)) >> >>
        ELSE << >>) \o NlMatchesOf(left_tuple, Tail(right), op, n)

\* The matches of the left tuples from position n on, in the order of the left
\* child.
RECURSIVE NlFrom(_, _, _, _)
NlFrom(left, right, op, n) ==
  IF n > Len(left) THEN << >>
  ELSE NlMatchesOf(left[n], right, op, n) \o NlFrom(left, right, op, n + 1)

ExpectedNl == NlFrom(hj_in.left, hj_in.right, nl_op, 1)

\* C21: the tuples next returns are, in order, the pairs of the first left tuple
\* with the right tuples that satisfy op, in right-child order, then those of the
\* second left tuple, and so on, left merged with right, each pair once; next has
\* rewound the right child as many times as it found it exhausted, once per left
\* tuple it has finished; and next returns None only when the left child is
\* exhausted and every pair has been returned.
C21_NestedLoopOutput ==
  nl.open =>
    /\ Len(nl_out) <= Len(ExpectedNl)
    /\ \A i \in 1..Len(nl_out) : nl_out[i] = ExpectedNl[i][2]
    /\ nl.rewinds = nl.exhausted
    /\ (nl_pc = "open" /\ nl_out # << >>) =>
         /\ nl.left_pos = ExpectedNl[Len(nl_out)][1]
         /\ nl.exhausted = nl.left_pos - 1
    /\ nl_pc = "done" =>
         /\ Len(nl_out) = Len(ExpectedNl)
         /\ nl.current_tuple = None
         /\ nl.left_pos = Len(hj_in.left)
         /\ nl.exhausted = Len(hj_in.left)
    /\ nl_pc # "panic"

\* Three left tuples have each been paired with the right tuples not above them,
\* and the right child has been rewound three times.
C21_Witness ==
  /\ nl_pc = "done"
  /\ nl_op = "Ge"
  /\ Len(hj_in.left) = 3
  /\ Len(hj_in.right) = 3
  /\ Len(nl_out) >= 4
  /\ nl.rewinds = 3
  /\ \E i \in 1..3 : hj_in.right[i] = << FInt(3) >>

(***************************************************************************)
(* Properties of the two joins over the same children (specification       *)
(* EqSpec).                                                                *)
(***************************************************************************)
Occurrences(seq, t) == Cardinality({ i \in 1..Len(seq) : seq[i] = t })
Elements(seq) == { seq[i] : i \in 1..Len(seq) }

\* C22: once both joins have been drained, every tuple occurs as many times in
\* the output of the HashEqJoin as in the output of the NestedLoopJoin with
\* op = Eq.
C22_JoinsAgree ==
  (hj_pc = "done" /\ nl_pc = "done") =>
    \A t \in Elements(hj_out) \cup Elements(nl_out) :
      Occurrences(hj_out, t) = Occurrences(nl_out, t)

\* Both joins are drained; two left tuples share a key that occurs twice on the
\* right, and the two outputs list the four pairs in different orders.
C22_Witness ==
  /\ hj_pc = "done"
  /\ nl_pc = "done"
  /\ Len(hj_out) >= 4
  /\ hj_out # nl_out
  /\ \E i, j \in 1..Len(hj_in.left) :
       i # j /\ hj_in.left[i] # hj_in.left[j] /\ hj_in.left[i][1] = hj_in.left[j][1]
  /\ \E i, j \in 1..Len(hj_in.right) :
       i # j /\ hj_in.right[i] = hj_in.right[j] /\ hj_in.right[i] = << FInt(1) >>

(***************************************************************************)
(* Properties of the protocol of the operators (specification OpSpec).     *)
(***************************************************************************)
\* C23: next on an Aggregate, a HashEqJoin or a NestedLoopJoin that is not open,
\* never opened or closed since, panics: it returns no tuple and leaves the
\* operator as it was.
C23_NextNotOpenPanics ==
  [][ /\ (AggNext /\ ~agg.open) => (agg_pc' = "panic" /\ agg_out' = agg_out /\ agg' = agg)
      /\ (HjNext /\ ~hj.open) => (hj_pc' = "panic" /\ hj_out' = hj_out /\ hj' = hj)
      /\ (NlNext /\ ~nl.open) => (nl_pc' = "panic" /\ nl_out' = nl_out /\ nl' = nl)
    ]_vars

\* A NestedLoopJoin that was closed while it held a left tuple has panicked.
C23_Witness ==
  /\ nl_pc = "panic"
  /\ ~nl.open
  /\ nl.current_tuple # None
  /\ ~nl.left_open

\* C24: rewind on an Aggregate, a HashEqJoin or a NestedLoopJoin that is not
\* open panics, and the operator and its children are as they were before.
C24_RewindNotOpenPanics ==
  [][ /\ (AggRewind /\ ~agg.open) => (agg_pc' = "panic" /\ agg' = agg /\ agg_out' = agg_out)
      /\ (HjRewind /\ ~hj.open) => (hj_pc' = "panic" /\ hj' = hj /\ hj_out' = hj_out)
      /\ (NlRewind /\ ~nl.open) => (nl_pc' = "panic" /\ nl' = nl /\ nl_out' = nl_out)
    ]_vars

\* A HashEqJoin that was closed in the middle of a fan-out has panicked.
C24_Witness ==
  /\ hj_pc = "panic"
  /\ ~hj.open
  /\ ~hj.left_open
  /\ hj.current_tuple # None

\* C25: open on an operator that is already open, after any number of next calls,
\* changes nothing: the buffered groups or hash table, the cursor or continuation,
\* the positions of the children and the output so far are as before.
C25_OpenIsIdempotent ==
  [][ /\ (AggOpen /\ agg.open) => UNCHANGED << agg, agg_out, agg_pc, agg_life >>
      /\ (HjOpen /\ hj.open) => UNCHANGED << hj, hj_out, hj_pc, hj_life >>
      /\ (NlOpen /\ nl.open) => UNCHANGED << nl, nl_out, nl_pc, nl_life >>
    ]_vars

\* An open HashEqJoin in the middle of a fan-out, on which open can be called.
C25_Witness ==
  /\ hj_pc = "open"
  /\ hj.open
  /\ hj.current_tuple # None
  /\ hj.current_index = Some(1)
  /\ Len(hj_out) = 1

ExpectedJoinTuples == [i \in 1..Len(ExpectedJoin) |-> ExpectedJoin[i][2]]

\* C26: after close and open, a drain of the HashEqJoin returns the tuples a drain
\* after the first open returns, in the same order, whatever the number of next
\* calls made before the close.
C26_CloseReopenDrain ==
  (hj_life = "reopened" /\ hj_pc = "done") => hj_out = ExpectedJoinTuples

ExpectedNlTuples == [i \in 1..Len(ExpectedNl) |-> ExpectedNl[i][2]]

IsPrefix(a, b) == Len(a) <= Len(b) /\ \A i \in 1..Len(a) : a[i] = b[i]

\* C27: after rewind on an open HashEqJoin or NestedLoopJoin, whatever next calls
\* came before, next returns the tuples of a complete drain after open, in the
\* same order, and returns None after the last of them.
C27_RewindThenDrain ==
  /\ (hj_life = "rewound" /\ hj.open) =>
       /\ IsPrefix(hj_out, ExpectedJoinTuples)
       /\ hj_pc = "done" => hj_out = ExpectedJoinTuples
       /\ hj_pc # "panic"
  /\ (nl_life = "rewound" /\ nl.open) =>
       /\ IsPrefix(nl_out, ExpectedNlTuples)
       /\ nl_pc = "done" => nl_out = ExpectedNlTuples
       /\ nl_pc # "panic"

\* A HashEqJoin has been rewound and then drained, and a right tuple matched a
\* bucket of two left tuples.
C27_Witness ==
  /\ hj_life = "rewound"
  /\ hj_pc = "done"
  /\ Len(hj_out) >= 2
  /\ \E k \in DOMAIN hj.left_hashmap : Len(hj.left_hashmap[k]) = 2

(***************************************************************************)
(* Properties of rewind and close of the Aggregate (specification AggSpec).*)
(***************************************************************************)
\* The tuples a drain of the open Aggregate a returns: one per key, in the order
\* in which the hashmap iterates.
AggDrain(a) ==
  [i \in 1..Len(a.order) |-> a.order[i] \o agg_result_fields(a.hashmap[a.order[i]]).fields]

\* C28: rewind on an open Aggregate sets the cursor to the start and changes
\* neither the group map, nor the order in which it iterates, nor the child; a
\* drain, before or after a rewind, returns the tuples of the group map in that
\* order; and close leaves the group map empty and the cursor unset.
C28_AggRewindAndClose ==
  [][ /\ (AggRewind /\ agg.open) =>
           /\ agg' = [agg EXCEPT !.current_index = Some(0)]
           /\ agg_pc' = "open"
      /\ agg_pc' = "done" => agg_out' = AggDrain(agg')
      /\ AggClose => (agg'.hashmap = << >> /\ agg'.current_index = None /\ ~agg'.open)
    ]_vars

\* An Aggregate with two groups has been rewound and then drained.
C28_Witness ==
  /\ agg_life = "rewound"
  /\ agg_pc = "done"
  /\ Len(agg_out) = 2
  /\ agg_cfg.ops = << "Count", "Max", "Avg" >>
  /\ agg.child_pos = Len(agg_in)


(***************************************************************************)
(* Properties of two Pages (specification PairSpec).                       *)
(***************************************************************************)
\* What a Page holds: its page id, the bytes of its directory entries in
\* directory order (a deleted slot's entry is zeroed and stays), and the
\* payload of every live slot.
PageAbstract(d) ==
  [page_id |-> from_le_bytes(d, PAGEID_LOC),
   directory |-> to_vec(d, META_HEADER_SIZE, get_header_size(d)),
   records |-> [loc \in LiveLocs(d) |->
                  to_vec(d, get_slot_offset(d, loc) - get_slot_size(d, loc),
                         get_slot_offset(d, loc))]]

\* C29: two Pages have the same PAGE_SIZE bytes if and only if they have the
\* same page id, the same sequence of directory entries and the same live
\* records, whatever add_value and delete_value calls led to them.
C29_ByteEqualIffSameContent ==
  (pair["a"] = pair["b"]) <=> (PageAbstract(pair["a"]) = PageAbstract(pair["b"]))

(***************************************************************************)
(* Properties of concurrent insert_value calls (specification ConcSpec).   *)
(***************************************************************************)
\* Only the thread that holds the write lock is inside insert_value.
ConcExclusive ==
  \A t \in Threads :
    conc_th[t].pc \in {"locked", "scanned", "written"} => conc_lock = t

\* C30: the write lock is held from the lookup of the container to the return,
\* so the calls do not interleave, and once every thread has returned, every
\* value is returned by get_value under the ValueId its thread received and the
\* ValueIds are pairwise distinct.
C30_ConcurrentInsertsStored ==
  /\ ConcExclusive
  /\ (\A t \in Threads : conc_th[t].pc = "done") =>
       /\ \A t \in Threads : sm_get_value(conc_hf, conc_th[t].ret) = Ok(conc_th[t].value)
       /\ \A t1, t2 \in Threads : t1 # t2 => conc_th[t1].ret # conc_th[t2].ret

(***************************************************************************)
(* Further properties of a Page (specification Spec).                      *)
(***************************************************************************)
\* The bytes of the slot directory of a page, in directory order.
DirectoryBytes(d) == to_vec(d, META_HEADER_SIZE, get_header_size(d))

\* C31: the slot directory is append-only.  A successful add_value raises
\* total_slot_headers by exactly 1 and writes its entry after the entries that were
\* there, which it leaves as they are, also when the id it returns is a reused one;
\* delete_value and a rejected add leave total_slot_headers unchanged; and
\* num_live_slots <= total_slot_headers in every state.
C31_DirectoryAppendOnly ==
  /\ [](get_num_slots(page) <= get_total_slot_headers(page))
  /\ [][ /\ (last_op'.name = "add_value" /\ last_op'.ret # None) =>
              /\ get_total_slot_headers(page') = get_total_slot_headers(page) + 1
              /\ from_le_bytes(page', get_header_size(page)) = last_op'.ret[1]
              /\ get_slot_offset(page', get_header_size(page)) # 0
              /\ SubSeq(DirectoryBytes(page'), 1, Len(DirectoryBytes(page))) =
                   DirectoryBytes(page)
         /\ (last_op'.name = "delete_value" \/ last_op'.ret = None) =>
              get_total_slot_headers(page') = get_total_slot_headers(page)
       ]_vars

\* An add has returned the id of a deleted slot; its entry is the last one of the
\* directory and the zeroed entry of the deleted slot is still before it.
C31_Witness ==
  /\ SuccessfulAdd
  /\ get_total_slot_headers(page) >= 3
  /\ last_op.ret[1] < get_total_slot_headers(page) - 1
  /\ from_le_bytes(page, get_header_size(page) - SLOT_META_SIZE) = last_op.ret[1]
  /\ \E loc \in DirLocs(page) \ LiveLocs(page) : loc < get_header_size(page) - SLOT_META_SIZE

(***************************************************************************)
(* Properties of a drain (specification DrainSpec).                        *)
(***************************************************************************)
\* Once the loop has started, a next() returns None.
AggDrainEnds == (agg_life = "draining") ~> (agg_pc = "done")
HjDrainEnds == (hj_life = "draining") ~> (hj_pc = "done")
NlDrainEnds == (nl_life = "draining") ~> (nl_pc = "done")
\* The tuples emitted since the last open or rewind.
HjDrainBounded == Len(hj_out) <= Len(hj_in.left) * Len(hj_in.right)
NlDrainBounded == Len(nl_out) <= Len(hj_in.left) * Len(hj_in.right)

\* C32: for finite children, a drain of an open Aggregate, HashEqJoin or
\* NestedLoopJoin reaches the end of the stream (a next() that returns None) after
\* finitely many calls, whatever the children hold, and a join emits at most
\* |left| * |right| tuples.
C32_DrainTerminates ==
  /\ AggDrainEnds
  /\ HjDrainEnds
  /\ NlDrainEnds
  /\ []HjDrainBounded
  /\ []NlDrainBounded

\* C33: every byte of the page that belongs neither to the 8-byte header, nor to
\* the slot directory, nor to the payload window of a live slot is zero: the free
\* region [get_header_size(), first_free_offset) holds no bytes of deleted or moved
\* records.
C33_FreeRegionIsZero ==
  /\ \A b \in get_header_size(page)..(PAGE_SIZE - 1) :
       (\A loc \in LiveLocs(page) : b \notin Window(page, loc)) => page[b] = 0
  /\ \A b \in get_header_size(page)..(get_first_offset(page) - 1) : page[b] = 0

(***************************************************************************)
(* Further properties of the StorageManager (specification SmUpdSpec).     *)
(***************************************************************************)
\* C34: update_value is all-or-nothing: when it is called on a stored record with
\* bytes that its insert half cannot store, the old record is still stored and
\* get_value still returns it under its ValueId.
C34_UpdateAllOrNothing ==
  [][ (sm_op'.name = "update_value" /\ sm_op'.kind = "live" /\ ~FitsInPage(sm_op'.value)) =>
        /\ sm_get_value(hf', sm_op'.arg).ok
        /\ sm_get_value(hf', sm_op'.arg) = sm_get_value(hf, sm_op'.arg)
    ]_vars

(***************************************************************************)
(* Properties of an iterator interleaved with deletes (specification       *)
(* ItSpec).                                                                *)
(***************************************************************************)
\* The bytes of the records stored in the container.
StoredBytes == { stored[k] : k \in DOMAIN stored }

\* C35: a next() of a heap-file iterator never yields a record that was already
\* deleted when the call was made, and never yields a record the iterator has
\* yielded before, whatever delete_value calls came between its next() calls.
C35_IterSkipsDeleted ==
  [][ Len(yielded') = Len(yielded) + 1 =>
        /\ yielded'[Len(yielded')][1] \in StoredBytes
        /\ \A i \in 1..Len(yielded) : yielded[i][1] # yielded'[Len(yielded')][1]
    ]_vars

(***************************************************************************)
(* Properties of a StorageManager used by several threads (specification   *)
(* PoisonSpec).                                                            *)
(***************************************************************************)
\* C36: an operation that fails on a container id that is not in the container
\* map does not disable the manager: insert_value, get_value and remove_container
\* on a container that is in the map never panic afterwards.
C36_FailureIsContained ==
  [][ (cm_ops' = cm_ops + 1 /\ ~cm_op'.absent
         /\ cm_op'.name \in {"insert_value", "get_value", "remove_container"}) =>
        cm_op'.ret # "panic"
    ]_vars

(***************************************************************************)
(* Properties of the lock discipline (specification LockSpec).             *)
(***************************************************************************)
\* C37: no operation asks for the container-map lock while its thread holds it,
\* and every operation a thread has called eventually returns: the manager never
\* deadlocks, whatever operations the threads call.
C37_NoDeadlock ==
  /\ [](\A t \in Threads :
          (conc_th[t].pc = "run" /\ conc_th[t].code # << >> /\ Head(conc_th[t].code) = "lock")
            => conc_lock # t)
  /\ \A t \in Threads : (conc_th[t].pc = "run") ~> (conc_th[t].pc = "done")

\* A thread is between the two halves of update_value, waiting for the lock that
\* another thread holds inside insert_values.
C37_Witness ==
  \E t1, t2 \in Threads :
    /\ t1 # t2
    /\ conc_th[t1].pc = "run"
    /\ conc_th[t1].op = "update_value"
    /\ conc_th[t1].code = << "lock", "work", "unlock" >>
    /\ conc_lock = t2
    /\ conc_th[t2].pc = "run"
    /\ conc_th[t2].op = "insert_values"

\* The slot id a directory entry carries.
SlotIdAt(d, loc) == from_le_bytes(d, loc)

\* C38: no two live directory entries carry the same slot id, every live slot id
\* is smaller than total_slot_headers, and num_live_slots is the number of
\* directory entries with a nonzero offset.
C38_LiveIdsDistinct ==
  /\ \A l1, l2 \in LiveLocs(page) : l1 # l2 => SlotIdAt(page, l1) # SlotIdAt(page, l2)
  /\ \A loc \in LiveLocs(page) : SlotIdAt(page, loc) < get_total_slot_headers(page)
  /\ get_num_slots(page) = Cardinality(LiveLocs(page))

\* Two live entries, one of them carrying a reused id that is smaller than its
\* place in the directory, after the zeroed entry of the slot that had the id.
C38_Witness ==
  /\ Cardinality(LiveLocs(page)) >= 2
  /\ get_num_slots(page) < get_total_slot_headers(page)
  /\ \E loc \in LiveLocs(page) :
       /\ SlotIdAt(page, loc) < (loc - META_HEADER_SIZE) \div SLOT_META_SIZE
       /\ \E z \in DirLocs(page) \ LiveLocs(page) : z < loc

\* C40: the live directory entries, read in directory order, have non-increasing
\* offsets, and the payload window of a live entry later in the directory lies
\* entirely below the window of every live entry earlier in the directory.
C40_DirectoryOrderIsOffsetOrder ==
  \A l1, l2 \in LiveLocs(page) :
    l1 < l2 =>
      /\ get_slot_offset(page, l2) <= get_slot_offset(page, l1)
      /\ get_slot_offset(page, l2) <= get_slot_offset(page, l1) - get_slot_size(page, l1)

\* A record between two others was deleted and compact has moved the later one up
\* against the earlier one, across the zeroed entry.
C40_Witness ==
  /\ SuccessfulDelete
  /\ \E l1, l2 \in LiveLocs(page) :
       /\ l1 < l2
       /\ \E z \in DirLocs(page) \ LiveLocs(page) : l1 < z /\ z < l2
       /\ get_slot_size(page, l1) > 0
       /\ get_slot_size(page, l2) > 0
       /\ get_slot_offset(page, l2) = get_slot_offset(page, l1) - get_slot_size(page, l1)

(***************************************************************************)
(* Properties of a Page given very long payloads (specification            *)
(* NarrowSpec).                                                            *)
(***************************************************************************)
\* C39: add_value decides on the true length of the payload: for a payload longer
\* than 65535 bytes it returns None, does not panic and leaves the page as it
\* was; and first_free_offset and the offsets and sizes of the directory stay
\* within 0..PAGE_SIZE.
C39_LongPayloadRejected ==
  /\ [](/\ get_first_offset(page) \in 0..PAGE_SIZE
        /\ \A loc \in LiveLocs(page) :
             /\ get_slot_offset(page, loc) \in 0..PAGE_SIZE
             /\ get_slot_size(page, loc) <= get_slot_offset(page, loc))
  /\ [][ ("len" \in DOMAIN last_op' /\ last_op'.len > 65535) =>
           /\ last_op'.name = "add_value"
           /\ last_op'.ret = None
           /\ page' = page
       ]_vars
====
